---------------------------- MODULE Spec2Model ----------------------------
(***************************************************************************)
(* ShopCore: the authentication / authorization pipeline.                  *)
(*                                                                         *)
(*   Session manager      AuthService.login / logout, verifyToken          *)
(*   Permission resolver  getPermissions                                   *)
(*   Boundary             routes, checkRole, user and role controllers     *)
(*                                                                         *)
(* Two specifications share the module.  Spec is the server: the stores    *)
(* (users, roles, sessions), the clock, and one action per HTTP request,   *)
(* each running its whole middleware chain and handler.  PermSpec applies  *)
(* getPermissions, a function of the request alone, to inputs drawn from   *)
(* bounded sets.                                                           *)
(***************************************************************************)
EXTENDS Naturals, Integers, Sequences, FiniteSets, Bags, TLC

VARIABLES
    users,      \* Credential store: id -> user document
    roles,      \* Role store: id -> role document
    sessions,   \* Session store: a bag of session rows (tokens need not be unique)
    now,        \* wall clock, in seconds
    ticks,      \* how many times the clock has advanced (bounds the model)
    nextUid,    \* next fresh user id
    nextRid,    \* next fresh role id
    writes,     \* how many requests have changed the user or role store
    last,       \* the request served last and its outcome
    live,       \* tokens login returned, not logged out since
    revoked,    \* tokens revoke() was called on, not returned by login since
    preq,       \* PermSpec: the request handed to getPermissions
    pres,       \* PermSpec: what getPermissions did with it
    procs,      \* ConcSpec: the requests in flight, each at its own await
    table       \* the permissions array of permission.type, as the process holds it

svars == <<users, roles, sessions, now, ticks, nextUid, nextRid, writes, last, live,
           revoked, procs>>
pvars == <<preq, pres>>
vars  == <<users, roles, sessions, now, ticks, nextUid, nextRid, writes, last, live,
           revoked, preq, pres, procs, table>>

----------------------------------------------------------------------------
(* Bounds of the model *)

MaxUsers    == 3    \* user documents ever created
MaxRoles    == 3    \* role documents ever created
MaxSessions == 2    \* session rows in the store at one time
MaxTicks    == 1    \* clock advances
MaxTokens   == 2    \* distinct tokens login ever returns
MaxWrites   == 1    \* user and role requests that change a store
MaxProcs    == 2    \* requests in flight at one time

----------------------------------------------------------------------------
(* Error taxonomy *)

DOCUMENT_NOT_FOUND    == 1001
DOCUMENTS_NOT_FOUND   == 1002
TOKEN_EXPIRED         == 2002
INTERNAL_SERVER_ERROR == 3001
UNAUTHORIZED          == 4001
FORBIDDEN             == 4002
INVALID_CREDENTIALS   == 4003
SELF_DEMOTION         == 7001
VALIDATION_ERROR      == 10001

HttpError(class, message, statusCode, errorCode) ==
    [class |-> class, message |-> message, statusCode |-> statusCode,
     errorCode |-> errorCode]

BadRequestError(message, errorCode)   == HttpError("BadRequestError", message, 400, errorCode)
UnauthorizedError(message, errorCode) == HttpError("UnauthorizedError", message, 401, errorCode)
ForbiddenError(message, errorCode)    == HttpError("ForbiddenError", message, 403, errorCode)
NotFoundError(message, errorCode)     == HttpError("NotFoundError", message, 404, errorCode)
ConflictError(message, errorCode)     == HttpError("ConflictError", message, 409, errorCode)
InternalError(message, errorCode)     == HttpError("InternalError", message, 500, errorCode)

\* no error: the middleware called next() / the handler answered normally
NoError == [class |-> "none"]

\* a JavaScript null / undefined
Null == [null |-> TRUE]


----------------------------------------------------------------------------
(* Tokens: jwt.sign / jwt.verify with HS256 and a fixed secret.  The token  *)
(* string is a function of the payload {sub, iat, exp = iat + 1h} alone,    *)
(* and iat is the issue time in whole seconds.                              *)

TokenTTL == 3600

NoToken == [kind |-> "none"]          \* no access_token cookie
Garbage == [kind |-> "garbage"]       \* malformed, or signed with another secret

signJwt(sub, t) == [kind |-> "jwt", sub |-> sub, iat |-> t]

\* jwt.verify: the payload, or a throw (JsonWebTokenError / TokenExpiredError)
JwtThrows(token, t) ==
    \/ token.kind # "jwt"
    \/ t >= token.iat + TokenTTL
verifyJwt(token, t) ==
    IF JwtThrows(token, t) THEN [threw |-> TRUE, sub |-> 0]
    ELSE [threw |-> FALSE, sub |-> token.sub]

----------------------------------------------------------------------------
(* Password hashing: hashPassword / comparePassword (bcrypt) *)

hashPassword(p) == <<"bcrypt", p>>
comparePassword(p, digest) == digest = hashPassword(p)

----------------------------------------------------------------------------
(* Session store: AuthModel and AuthRepository *)

\* AuthModel.create({token, userId}): revoked defaults to false, createdAt to now
SessionRow(token, userId, t) ==
    [token |-> token, userId |-> userId, revoked |-> FALSE, createdAt |-> t]

\* a store that keeps one session per user: the new row replaces the user's rows
AuthCreateUpsert(store, token, userId, t) ==
    [r \in {x \in BagToSet(store) : x.userId # userId}
          \cup {SessionRow(token, userId, t)} |->
        IF r = SessionRow(token, userId, t) THEN 1 ELSE CopiesIn(r, store)]

AuthCreate(store, token, userId, t) == store (+) SetToBag({SessionRow(token, userId, t)})

\* findOne({token, revoked: false})
ValidRows(store, token) ==
    {r \in BagToSet(store) : r.token = token /\ r.revoked = FALSE}
findValid(store, token) ==
    IF ValidRows(store, token) = {} THEN Null
    ELSE CHOOSE r \in ValidRows(store, token) : TRUE

\* deleteOne({token}): removes one matching row, whatever its revoked flag
TokenRows(store, token) == {r \in BagToSet(store) : r.token = token}
\* a deleteOne that reports one deleted row whatever it found
RevokeDeletedAlways(store, token) == 1

RevokeDeleted(store, token) ==
    IF TokenRows(store, token) = {} THEN 0 ELSE 1
\* a revoke that removes every row of the token (deleteMany)
RevokeStoreAll(store, token) ==
    [r \in BagToSet(store) \ TokenRows(store, token) |-> CopiesIn(r, store)]
\* a revoke that marks the row revoked and leaves it in the store
RevokeStoreMark(store, token) ==
    IF TokenRows(store, token) = {} THEN store
    ELSE (store (-) SetToBag({CHOOSE r \in TokenRows(store, token) : TRUE}))
            (+) SetToBag({[(CHOOSE r \in TokenRows(store, token) : TRUE)
                             EXCEPT !.revoked = TRUE]})
RevokeStore(store, token) ==
    IF TokenRows(store, token) = {} THEN store
    ELSE store (-) SetToBag({CHOOSE r \in TokenRows(store, token) : TRUE})
\* revoke's result: deletedCount === 1
revoke(store, token) == RevokeDeleted(store, token) = 1

\* the TTL index on createdAt (expires: 3600): rows the monitor may delete
Expired(store, t) == {r \in BagToSet(store) : t >= r.createdAt + TokenTTL}

----------------------------------------------------------------------------
(* Credential store: UserModel and UserRepository *)

\* a reference to a document of another collection
ObjectId(i) == [oid |-> i]

\* a user document; roles are ObjectId references into the Role store
UserDoc(id, email, name, digest, permissions, rs) ==
    [id |-> id, email |-> email, name |-> name, password |-> digest,
     permissions |-> permissions, roles |-> rs]

\* a serialisation that keeps every field of the document
toObject(doc) == doc

\* UserSchema.methods.toJSON: the document without its password; res.json
\* serialises a document through it
toJSON(doc) == [f \in (DOMAIN doc) \ {"password"} |-> doc[f]]

\* findOne({email}); email is unique
UserFindOne(store, email) ==
    IF \E i \in DOMAIN store : store[i].email = email
    THEN store[CHOOSE i \in DOMAIN store : store[i].email = email]
    ELSE Null

\* findById(id): the document as stored, its roles not populated
UserFindById(store, id) ==
    IF id \in DOMAIN store THEN store[id] ELSE Null


----------------------------------------------------------------------------
(* Role store: RoleModel and RoleRepository *)

RoleDoc(id, name, permissions) ==
    [id |-> id, name |-> name, permissions |-> permissions]

\* find({name: {$in: names}})
RoleFindByNames(store, names) ==
    {store[i] : i \in {j \in DOMAIN store : store[j].name \in names}}

----------------------------------------------------------------------------
(* Session manager: AuthService.login and the verifyToken middleware *)

\* a login that tells an unknown email from a wrong password
LoginErrorTelling(user, password) ==
    IF user = Null THEN NotFoundError("User not found", DOCUMENT_NOT_FOUND)
    ELSE IF ~comparePassword(password, user.password)
    THEN BadRequestError("Invalid credentials", INVALID_CREDENTIALS)
    ELSE NoError

\* what login throws for the user findOne returned and the password given
LoginError(user, password) ==
    IF user = Null \/ ~comparePassword(password, user.password)
    THEN BadRequestError("Invalid credentials", INVALID_CREDENTIALS)
    ELSE NoError

\* the Session store once login has run
\* a login that records the attempt in the session store even when it fails
LoginSessionsAlways(store, user, password, t) ==
    IF LoginError(user, password) # NoError THEN AuthCreate(store, NoToken, 0, t)
    ELSE AuthCreate(store, signJwt(user.id, t), user.id, t)

LoginSessions(store, user, password, t) ==
    IF LoginError(user, password) # NoError THEN store
    ELSE AuthCreate(store, signJwt(user.id, t), user.id, t)

\* the token login returns (when it does not throw)
LoginToken(user, password, t) ==
    IF LoginError(user, password) # NoError THEN NoToken
    ELSE signJwt(user.id, t)

\* a verifyToken that trusts the signature and never looks the session up
verifyTokenUnchecked(cookie, sstore, ustore, t) ==
    IF cookie = NoToken
    THEN [err |-> UnauthorizedError("Invalid credentials", INVALID_CREDENTIALS),
          attached |-> FALSE, currentUser |-> Null]
    ELSE IF verifyJwt(cookie, t).threw
    THEN [err |-> InternalError("Token verification failed", TOKEN_EXPIRED),
          attached |-> FALSE, currentUser |-> Null]
    ELSE [err |-> NoError, attached |-> TRUE,
          currentUser |-> UserFindById(ustore, verifyJwt(cookie, t).sub)]

\* verifyToken: the error handed to next (NoError: next() with no argument)
\* and the identity attached to the request
verifyToken(cookie, sstore, ustore, t) ==
    IF cookie = NoToken
    THEN [err |-> UnauthorizedError("Invalid credentials", INVALID_CREDENTIALS),
          attached |-> FALSE, currentUser |-> Null]
    ELSE IF verifyJwt(cookie, t).threw
    THEN [err |-> InternalError("Token verification failed", TOKEN_EXPIRED),
          attached |-> FALSE, currentUser |-> Null]
    ELSE IF findValid(sstore, cookie) = Null
    THEN [err |-> UnauthorizedError("Invalid credentials", INVALID_CREDENTIALS),
          attached |-> FALSE, currentUser |-> Null]
    ELSE [err |-> NoError, attached |-> TRUE,
          currentUser |-> UserFindById(ustore, verifyJwt(cookie, t).sub)]

\* the store accesses of verifyToken that may throw
Faults == {"findValid", "findById"}

\* does verifyToken get as far as that store access?
Reaches(fault, cookie, sstore, t) ==
    /\ cookie # NoToken
    /\ ~JwtThrows(cookie, t)
    /\ fault = "findById" => findValid(sstore, cookie) # Null

\* verifyToken when a store access throws: the catch block
verifyTokenFailing ==
    [err |-> InternalError("Token verification failed", TOKEN_EXPIRED),
     attached |-> FALSE, currentUser |-> Null]

----------------------------------------------------------------------------
(* Permission resolver: the policy table and the getPermissions middleware. *)
(* A URL is the sequence of its path segments, then "?" and the query when  *)
(* it has one: /api/v1/users/1?x is <<"api", "v1", "users", "1", "?", "x">>. *)

Methods == {"GET", "POST", "PATCH", "DELETE"}      \* enum Method

permissions == <<
    [method |-> "GET",    scope |-> "read",   permissions |-> <<"admin_granted">>],
    [method |-> "POST",   scope |-> "write",  permissions |-> <<"admin_granted">>],
    [method |-> "PATCH",  scope |-> "update", permissions |-> <<"admin_granted">>],
    [method |-> "DELETE", scope |-> "delete", permissions |-> <<"admin_granted">> ] >>

Range(seq) == {seq[i] : i \in DOMAIN seq}

\* originalUrl.split("?")[0]
RECURSIVE FullPath(_)
FullPath(url) ==
    IF url = <<>> \/ Head(url) = "?" THEN <<>>
    ELSE <<Head(url)>> \o FullPath(Tail(url))

RECURSIVE PathString(_)
PathString(path) ==
    IF path = <<>> THEN "" ELSE "/" \o Head(path) \o PathString(Tail(path))

\* a module taken from the last segment of the path
CurrentModuleLast(path) ==
    IF path = <<>> THEN "" ELSE path[Len(path)]

\* fullPath.replace(/^\/api\/v1\/([^\/]+).*/, "$1"): the path itself when
\* the pattern does not match
CurrentModule(path) ==
    IF Len(path) >= 3 /\ path[1] = "api" /\ path[2] = "v1" /\ path[3] # ""
    THEN path[3] ELSE PathString(path)

\* a lookup that falls back on the first entry for a method it does not know
BaseMethodDefault(method) ==
    IF \E i \in DOMAIN table : table[i].method = method
    THEN table[CHOOSE i \in DOMAIN table : table[i].method = method]
    ELSE table[1]

\* permissions.find(p => p.method === Method[method]): the entry, or Null
BaseMethod(method) ==
    IF \E i \in DOMAIN table : table[i].method = method /\ method \in Methods
    THEN table[CHOOSE i \in DOMAIN table : table[i].method = method]
    ELSE Null

\* findMethod.permissions after the module-scoped permission was pushed
\* (the empty list stands for an undefined findMethod)
RequiredPermissions(method, url) ==
    LET base   == BaseMethod(method)
        scoped == CurrentModule(FullPath(url)) \o "_" \o base.scope
    IN  IF base = Null THEN <<>>
        ELSE IF scoped \in Range(base.permissions) THEN base.permissions
        ELSE Append(base.permissions, scoped)

\* a getPermissions that pushes the module-scoped permission into the entry
\* of the table itself
TableAfterPush(tbl, method, url) ==
    [i \in DOMAIN tbl |->
        IF tbl[i].method = method
        THEN [tbl[i] EXCEPT !.permissions = RequiredPermissions(method, url)]
        ELSE tbl[i]]

\* the table after getPermissions ran: findMethod is a copy of the entry
\* with a copy of its permissions, and the push goes to the copy
TableAfter(tbl, method, url) == tbl

\* what x.permissions contributes to flatMap: a role document's permissions,
\* or the single value undefined when x has no such field (an ObjectId)
Undefined == "<undefined>"
RolePermissions(x) ==
    IF "permissions" \in DOMAIN x THEN x.permissions ELSE {Undefined}

\* [...new Set(roles?.flatMap(x => x.permissions))]
MergedRolesPermissions(currentUser) ==
    IF "roles" \notin DOMAIN currentUser THEN {}
    ELSE UNION {RolePermissions(x) : x \in currentUser.roles}

\* direct permissions added to those of the roles, instead of replacing them
UserPermissionsUnion(currentUser) ==
    currentUser.permissions \cup MergedRolesPermissions(currentUser)

\* currentUser.permissions?.length !== 0 ? currentUser.permissions : merged
\* (only for a currentUser that has a permissions field)
UserPermissions(currentUser) ==
    IF currentUser.permissions # {} THEN currentUser.permissions
    ELSE MergedRolesPermissions(currentUser)

\* findMethod.permissions.find(p => userPermissions.includes(p)): the
\* positions of the required permissions the user holds
Granted(required, held) == {i \in DOMAIN required : required[i] \in held}

\* a check that asks for every required permission instead of any one
PermissionGrantedAll(required, held) ==
    required # <<>> /\ \A i \in DOMAIN required : required[i] \in held

\* !permissionGranted: find's result is undefined, or a falsy string
PermissionGranted(required, held) ==
    /\ Granted(required, held) # {}
    /\ required[CHOOSE i \in Granted(required, held) :
                    \A j \in Granted(required, held) : i <= j] # ""

\* a getPermissions that answers a request without identity as a denial
getPermissionsSilent(currentUser, method, url) ==
    IF currentUser = Null \/ BaseMethod(method) = Null
    THEN ForbiddenError("Insufficient permissions", FORBIDDEN)
    ELSE IF "permissions" \notin DOMAIN currentUser
    THEN InternalError("Permission validation failed", INTERNAL_SERVER_ERROR)
    ELSE IF ~PermissionGranted(RequiredPermissions(method, url),
                               UserPermissions(currentUser))
    THEN ForbiddenError("Insufficient permissions", FORBIDDEN)
    ELSE NoError

\* getPermissions: the error handed to next (NoError: next())
getPermissions(currentUser, method, url) ==
    IF currentUser = Null
    THEN InternalError("Permission validation failed", INTERNAL_SERVER_ERROR)
    ELSE IF BaseMethod(method) = Null
    THEN ForbiddenError("Insufficient permissions", FORBIDDEN)
    ELSE IF "permissions" \notin DOMAIN currentUser
    THEN InternalError("Permission validation failed", INTERNAL_SERVER_ERROR)
    ELSE IF ~PermissionGranted(RequiredPermissions(method, url),
                               UserPermissions(currentUser))
    THEN ForbiddenError("Insufficient permissions", FORBIDDEN)
    ELSE NoError


----------------------------------------------------------------------------
(* checkRole: resolves the role names of the body to role ids *)

\* the names looked up: body.roles when it is a non-empty list, else "guest"
RequestedRoles(body) ==
    IF "roles" \in DOMAIN body /\ body.roles # {} THEN body.roles ELSE {"guest"}

checkRoleError(body, rstore) ==
    IF RoleFindByNames(rstore, RequestedRoles(body)) = {}
    THEN BadRequestError("Role not found", DOCUMENTS_NOT_FOUND)
    ELSE NoError

\* req.body.roles = foundRoles.map(r => r._id)
checkRoleBody(body, rstore) ==
    [f \in (DOMAIN body) \cup {"roles"} |->
        IF f = "roles"
        THEN {ObjectId(r.id) : r \in RoleFindByNames(rstore, RequestedRoles(body))}
        ELSE body[f]]

----------------------------------------------------------------------------
(* Routes: the middleware that guards each handler *)

Modules == {"users", "roles"}

\* does the router of the module have a route for the request?
HasRoute(module, method, hasId) ==
    \/ method = "POST" /\ ~hasId
    \/ method = "GET"
    \/ method \in {"PATCH", "DELETE"} /\ hasId

\* the middleware between verifyToken and the handler
RouteGuard(module, method, hasId) ==
    IF module = "roles" THEN "getPermissions"
    ELSE IF method \in {"POST", "PATCH"} THEN "checkRole"
    ELSE "getPermissions"

\* the originalUrl of a request on a module
Url(module, target) ==
    IF target = 0 THEN <<"api", "v1", module>>
    ELSE <<"api", "v1", module, ToString(target)>>


----------------------------------------------------------------------------
(* Controllers.  A handler's result: the error it raised (NoError when it   *)
(* answered normally), the status of the response and the store it leaves.  *)

ValidationError == HttpError("ValidationError", "Validation failed", 400, VALIDATION_ERROR)

\* what the errorHandler wrapper makes of a throw that is no HttpError
Unexpected == InternalError("Internal Server Error", INTERNAL_SERVER_ERROR)

Result(err, status, store) == [err |-> err, status |-> status, store |-> store]
Failed(err, store) == Result(err, err.statusCode, store)

\* CreateUserInput.parse: name, email and password are required
ValidCreateUser(body) == {"name", "email", "password"} \subseteq DOMAIN body

EmailTaken(ustore, email) == \E i \in DOMAIN ustore : ustore[i].email = email

\* new UserModel(data).save(): the password is hashed by the pre-save hook,
\* permissions default to [], and the schema strips what it does not know
NewUser(uid, body) ==
    UserDoc(uid, body.email, body.name, hashPassword(body.password), {},
            IF "roles" \in DOMAIN body THEN body.roles ELSE {})

createUser(body, ustore, uid) ==
    IF ~ValidCreateUser(body) THEN Failed(ValidationError, ustore)
    ELSE IF EmailTaken(ustore, body.email) THEN Failed(Unexpected, ustore)
    ELSE Result(NoError, 201, (uid :> NewUser(uid, body)) @@ ustore)

findUsers(ustore) ==
    IF DOMAIN ustore = {}
    THEN Failed(NotFoundError("No users found", DOCUMENTS_NOT_FOUND), ustore)
    ELSE Result(NoError, 200, ustore)

findUserById(id, ustore) ==
    IF UserFindById(ustore, id) = Null
    THEN Failed(NotFoundError("User not found", DOCUMENT_NOT_FOUND), ustore)
    ELSE Result(NoError, 200, ustore)

\* findByIdAndUpdate(id, data): the fields of data replace the document's
UpdatableUserFields == {"name", "email", "password", "roles", "permissions"}
UpdatedDoc(doc, data, fields) ==
    [f \in DOMAIN doc |-> IF f \in (DOMAIN data) \cap fields THEN data[f] ELSE doc[f]]

updateUser(id, body, currentUser, ustore) ==
    IF currentUser = Null THEN Failed(Unexpected, ustore)
    ELSE IF id = currentUser.id /\ "roles" \in DOMAIN body
    THEN Failed(ConflictError("User cannot modify their own roles", SELF_DEMOTION), ustore)
    ELSE IF id \notin DOMAIN ustore
    THEN Failed(NotFoundError("User not found", DOCUMENT_NOT_FOUND), ustore)
    ELSE Result(NoError, 200,
                [ustore EXCEPT ![id] = UpdatedDoc(@, body, UpdatableUserFields)])

Without(store, id) == [i \in (DOMAIN store) \ {id} |-> store[i]]

\* a deleteUser that does not look at who is asking
deleteUserUnguarded(id, currentUser, ustore) ==
    IF currentUser = Null THEN Failed(Unexpected, ustore)
    ELSE IF id \notin DOMAIN ustore
    THEN Failed(NotFoundError("User not found", DOCUMENT_NOT_FOUND), ustore)
    ELSE Result(NoError, 200, Without(ustore, id))

deleteUser(id, currentUser, ustore) ==
    IF currentUser = Null THEN Failed(Unexpected, ustore)
    ELSE IF id = currentUser.id
    THEN Failed(ConflictError("Users cannot delete their own account", SELF_DEMOTION), ustore)
    ELSE IF id \notin DOMAIN ustore
    THEN Failed(NotFoundError("User not found", DOCUMENT_NOT_FOUND), ustore)
    ELSE Result(NoError, 200, Without(ustore, id))

\* the login controller's body: {sub, email, username} of the user found by
\* email (the document's name stands for its name and its username)
loginBody(user) ==
    IF user = Null THEN <<>>
    ELSE [sub |-> user.id, email |-> user.email, username |-> user.name]

\* res.json(users): every document of the list, serialised
usersBody(ustore) == {toJSON(ustore[i]) : i \in DOMAIN ustore}

UsersHandler(method, id, body, currentUser, ustore, uid) ==
    CASE method = "POST"              -> createUser(body, ustore, uid)
      [] method = "GET" /\ id = 0     -> findUsers(ustore)
      [] method = "GET" /\ id # 0     -> findUserById(id, ustore)
      [] method = "PATCH"             -> updateUser(id, body, currentUser, ustore)
      [] method = "DELETE"            -> deleteUser(id, currentUser, ustore)

NameTaken(rstore, name) == \E i \in DOMAIN rstore : rstore[i].name = name

\* the role controller does not validate the body: a role needs a name
createRole(body, rstore, rid) ==
    IF "name" \notin DOMAIN body \/ NameTaken(rstore, body.name)
    THEN Failed(Unexpected, rstore)
    ELSE Result(NoError, 201,
                (rid :> RoleDoc(rid, body.name,
                                IF "permissions" \in DOMAIN body
                                THEN body.permissions ELSE {})) @@ rstore)

findRoles(rstore) ==
    IF DOMAIN rstore = {}
    THEN Failed(NotFoundError("No roles found", DOCUMENTS_NOT_FOUND), rstore)
    ELSE Result(NoError, 200, rstore)

findRoleById(id, rstore) ==
    IF id \notin DOMAIN rstore
    THEN Failed(NotFoundError("Role not found", DOCUMENT_NOT_FOUND), rstore)
    ELSE Result(NoError, 200, rstore)

updateRole(id, body, rstore) ==
    IF id \notin DOMAIN rstore
    THEN Failed(NotFoundError("Role not found", DOCUMENT_NOT_FOUND), rstore)
    ELSE Result(NoError, 200,
                [rstore EXCEPT ![id] = UpdatedDoc(@, body, {"name", "permissions"})])

deleteRole(id, rstore) ==
    IF id \notin DOMAIN rstore
    THEN Failed(NotFoundError("Role not found", DOCUMENT_NOT_FOUND), rstore)
    ELSE Result(NoError, 200, Without(rstore, id))

RolesHandler(method, id, body, rstore, rid) ==
    CASE method = "POST"              -> createRole(body, rstore, rid)
      [] method = "GET" /\ id = 0     -> findRoles(rstore)
      [] method = "GET" /\ id # 0     -> findRoleById(id, rstore)
      [] method = "PATCH"             -> updateRole(id, body, rstore)
      [] method = "DELETE"            -> deleteRole(id, rstore)


----------------------------------------------------------------------------
(* One request on /api/v1/users or /api/v1/roles, from verifyToken to the   *)
(* response: router.use("/users", verifyToken, userRoutes) and              *)
(* router.use("/roles", verifyToken, getPermissions, roleRouter).           *)

\* Express's answer when no route matches
NotRouted == [class |-> "NotRouted", statusCode |-> 404]

Outcome(err, status, v, decided, ran, ustore, rstore) ==
    [err |-> err, status |-> status, attached |-> v.attached,
     currentUser |-> v.currentUser, decided |-> decided, ran |-> ran,
     users |-> ustore, roles |-> rstore]

\* the handler of a routed request that passed its guards
Handle(module, method, id, body, v, decided, ustore, rstore, uid, rid) ==
    IF module = "users"
    THEN LET r == UsersHandler(method, id, body, v.currentUser, ustore, uid)
         IN  Outcome(r.err, r.status, v, decided, TRUE, r.store, rstore)
    ELSE LET r == RolesHandler(method, id, body, rstore, rid)
         IN  Outcome(r.err, r.status, v, decided, TRUE, ustore, r.store)

Decision(err) ==
    IF err = NoError THEN "ALLOW"
    ELSE IF err.class = "ForbiddenError" THEN "DENY" ELSE "ERROR"

Serve(module, method, id, body, cookie, ustore, rstore, sstore, t, uid, rid) ==
    LET v      == verifyToken(cookie, sstore, ustore, t)
        routed == HasRoute(module, method, id # 0)
        guard  == RouteGuard(module, method, id # 0)
        perm   == getPermissions(v.currentUser, method, Url(module, id))
        role   == checkRoleError(body, rstore)
    IN  IF v.err # NoError
        THEN Outcome(v.err, v.err.statusCode, v, "NONE", FALSE, ustore, rstore)
        ELSE IF module = "roles" /\ perm # NoError
        THEN Outcome(perm, perm.statusCode, v, Decision(perm), FALSE, ustore, rstore)
        ELSE IF ~routed
        THEN Outcome(NotRouted, 404, v,
                     IF module = "roles" THEN "ALLOW" ELSE "NONE", FALSE, ustore, rstore)
        ELSE IF guard = "getPermissions" /\ perm # NoError
        THEN Outcome(perm, perm.statusCode, v, Decision(perm), FALSE, ustore, rstore)
        ELSE IF guard = "checkRole" /\ role # NoError
        THEN Outcome(role, role.statusCode, v, "NONE", FALSE, ustore, rstore)
        ELSE IF guard = "checkRole"
        THEN Handle(module, method, id, checkRoleBody(body, rstore), v, "NONE",
                    ustore, rstore, uid, rid)
        ELSE Handle(module, method, id, body, v, "ALLOW", ustore, rstore, uid, rid)


----------------------------------------------------------------------------
(* The inputs requests are drawn from *)

Emails    == {"e1", "e2", "e0"}     \* "e0" is the email of no user
Passwords == {"pw1", "pw2"}

EmptyBody == <<>>

RegisterBodies ==
    {[name |-> "new", email |-> "e3", password |-> "pw1"],
     [name |-> "new", email |-> "e1", password |-> "pw1"],
     [name |-> "new", email |-> "e3", password |-> "pw1", roles |-> {"ghost"}],
     [name |-> "new"]}

NewUserBodies ==
    {[name |-> "new", email |-> "e3", password |-> "pw1", roles |-> {"admin"}]}

UserPatchBodies ==
    {[name |-> "renamed"], [roles |-> {"admin"}], [roles |-> {"ghost"}],
     [permissions |-> {"roles_read"}]}

NewRoleBodies   == {[name |-> "editor", permissions |-> {"users_read"}]}
RolePatchBodies == {[permissions |-> {"admin_granted"}]}

Bodies(module, method) ==
    IF method \notin {"POST", "PATCH"} THEN {EmptyBody}
    ELSE IF module = "roles"
    THEN (IF method = "POST" THEN NewRoleBodies ELSE RolePatchBodies)
    ELSE IF method = "POST" THEN NewUserBodies
    ELSE UserPatchBodies

\* the methods a client sends: those of the policy table and one more
HttpMethods == Methods \cup {"PUT"}

\* the access_token cookies a client may present: none, a malformed one,
\* every token login has returned, and a validly signed token never issued
Cookies ==
    {NoToken, Garbage} \cup live \cup revoked \cup {signJwt(2, now)}

\* what is known of the cookie when the request arrives
CookieState(cookie) ==
    IF cookie = NoToken THEN "absent"
    ELSE IF cookie = Garbage THEN "garbage"
    ELSE IF cookie \in live THEN "live"
    ELSE IF cookie \in revoked THEN "revoked" ELSE "unknown"

----------------------------------------------------------------------------
(* The server *)

\* how many session rows hold the cookie's token, not revoked
RowCount(store, cookie) ==
    BagCardinality([r \in ValidRows(store, cookie) |-> CopiesIn(r, store)])

\* what is recorded of a request and its response
Idle ==
    [op |-> "none", module |-> "", method |-> "", id |-> 0, bodyRoles |-> FALSE,
     cookieState |-> "absent", fresh |-> FALSE, sub |-> 0,
     err |-> NoError, status |-> 0, attached |-> FALSE, cu |-> 0,
     decided |-> "NONE", ran |-> FALSE, rows |-> 0,
     email |-> "", password |-> "", token |-> NoToken, fault |-> "none"]

\* a client that has not sent its login yet
Idling ==
    [p \in 1..MaxProcs |->
        [pc |-> "start", user |-> Null, token |-> NoToken, cleared |-> FALSE]]

\* the id of the identity attached to the request (0: none, or null)
CuId(v) == IF v.currentUser = Null THEN 0 ELSE v.currentUser.id

Seen(op, cookie, v) ==
    [Idle EXCEPT !.op = op, !.cookieState = CookieState(cookie),
                 !.fresh = ~JwtThrows(cookie, now),
                 !.sub = IF cookie.kind = "jwt" THEN cookie.sub ELSE 0,
                 !.rows = RowCount(sessions, cookie),
                 !.attached = v.attached, !.cu = CuId(v)]

Init ==
    /\ users = (1 :> UserDoc(1, "e1", "root", hashPassword("pw1"), {"admin_granted"}, {}))
            @@ (2 :> UserDoc(2, "e2", "user", hashPassword("pw1"), {}, {ObjectId(1)}))
    /\ roles = (1 :> RoleDoc(1, "guest", {}))
            @@ (2 :> RoleDoc(2, "admin", {"admin_granted"}))
    /\ sessions = EmptyBag
    /\ now = 0
    /\ ticks = 0
    /\ nextUid = 3
    /\ nextRid = 3
    /\ writes = 0
    /\ last = Idle
    /\ procs = Idling
    /\ table = permissions
    /\ live = {}
    /\ revoked = {}
    /\ preq = Null
    /\ pres = Null

\* POST /api/v1/auth/login
Login(email, password) ==
    \E user \in {UserFindOne(users, email)} :
    \E err \in {LoginError(user, password)} :
    \E token \in {LoginToken(user, password, now)} :
        /\ err = NoError =>
              /\ BagCardinality(sessions) < MaxSessions
              /\ \/ token \in live \cup revoked
                 \/ Cardinality(live \cup revoked) < MaxTokens
        /\ sessions' = LoginSessions(sessions, user, password, now)
        /\ last' = [Idle EXCEPT !.op = "login", !.err = err,
                       !.status = IF err = NoError THEN 200 ELSE err.statusCode,
                       !.token = token, !.ran = TRUE,
                       !.email = email, !.password = password,
                       !.cu = IF err = NoError THEN user.id ELSE 0]
        /\ live' = IF err = NoError THEN live \cup {token} ELSE live
        /\ revoked' = IF err = NoError THEN revoked \ {token} ELSE revoked
        /\ UNCHANGED <<users, roles, now, ticks, nextUid, nextRid, writes, preq, pres, procs, table>>

\* POST /api/v1/auth/logout: verifyToken, then the logout controller
Logout(cookie) ==
    \E v \in {verifyToken(cookie, sessions, users, now)} :
    \E ok \in {revoke(sessions, cookie)} :
        /\ sessions' = IF v.err = NoError THEN RevokeStore(sessions, cookie) ELSE sessions
        /\ last' = [Seen("logout", cookie, v) EXCEPT
                       !.err = v.err,
                       !.status = IF v.err # NoError THEN v.err.statusCode
                                  ELSE IF ok THEN 200 ELSE 400,
                       !.ran = (v.err = NoError)]
        /\ live' = IF v.err = NoError THEN live \ {cookie} ELSE live
        /\ revoked' = IF v.err = NoError /\ cookie \in live \cup revoked
                      THEN revoked \cup {cookie} ELSE revoked
        /\ UNCHANGED <<users, roles, now, ticks, nextUid, nextRid, writes, preq, pres, procs, table>>

\* POST /api/v1/auth/register: checkRole, then the register controller
Register(body) ==
    \E role \in {checkRoleError(body, roles)} :
    \E r \in {createUser(checkRoleBody(body, roles), users, nextUid)} :
        /\ nextUid <= MaxUsers
        /\ writes < MaxWrites
        /\ users' = IF role = NoError THEN r.store ELSE users
        /\ nextUid' = IF role = NoError /\ r.store # users THEN nextUid + 1 ELSE nextUid
        /\ writes' = IF role = NoError /\ r.store # users THEN writes + 1 ELSE writes
        /\ last' = [Idle EXCEPT !.op = "register",
                       !.bodyRoles = ("roles" \in DOMAIN body),
                       !.err = IF role # NoError THEN role ELSE r.err,
                       !.status = IF role # NoError THEN role.statusCode ELSE r.status,
                       !.ran = (role = NoError)]
        /\ UNCHANGED <<roles, sessions, now, ticks, nextRid, live, revoked, preq, pres, procs, table>>

\* a request on /api/v1/users or /api/v1/roles
Request(module, method, id, body, cookie) ==
    \E o \in {Serve(module, method, id, body, cookie, users, roles, sessions, now,
                    nextUid, nextRid)} :
        /\ writes < MaxWrites \/ (o.users = users /\ o.roles = roles)
        /\ method = "POST" => (nextUid <= MaxUsers /\ nextRid <= MaxRoles)
        /\ users' = o.users
        /\ roles' = o.roles
        /\ nextUid' = IF DOMAIN o.users \subseteq DOMAIN users THEN nextUid ELSE nextUid + 1
        /\ nextRid' = IF DOMAIN o.roles \subseteq DOMAIN roles THEN nextRid ELSE nextRid + 1
        /\ writes' = IF o.users = users /\ o.roles = roles THEN writes ELSE writes + 1
        /\ last' = [Seen("request", cookie,
                         [attached |-> o.attached, currentUser |-> o.currentUser]) EXCEPT
                       !.module = module, !.method = method, !.id = id,
                       !.bodyRoles = ("roles" \in DOMAIN body),
                       !.err = o.err, !.status = o.status,
                       !.decided = o.decided, !.ran = o.ran]
        /\ table' = IF o.decided \in {"ALLOW", "DENY"}
                     THEN TableAfter(table, method, Url(module, id)) ELSE table
        /\ UNCHANGED <<sessions, now, ticks, live, revoked, preq, pres, procs>>

\* GET /api/v1/users while the data store is failing: the session lookup
\* or the identity lookup of verifyToken throws
FailingRequest(cookie, fault) ==
    /\ Reaches(fault, cookie, sessions, now)
    /\ last' = [Seen("request", cookie, verifyTokenFailing) EXCEPT
                   !.module = "users", !.method = "GET",
                   !.err = verifyTokenFailing.err,
                   !.status = verifyTokenFailing.err.statusCode,
                   !.fault = fault]
    /\ UNCHANGED <<users, roles, sessions, now, ticks, nextUid, nextRid, writes,
                   live, revoked, preq, pres, procs, table>>

\* time passes: a second, or the lifetime of a token
Tick(d) ==
    /\ ticks < MaxTicks
    /\ now' = now + d
    /\ ticks' = ticks + 1
    /\ UNCHANGED <<users, roles, sessions, nextUid, nextRid, writes, last, live,
                   revoked, preq, pres, procs, table>>

\* the store's TTL monitor deletes a session row older than an hour
ExpireSession ==
    /\ \E r \in Expired(sessions, now) : sessions' = sessions (-) SetToBag({r})
    /\ UNCHANGED <<users, roles, now, ticks, nextUid, nextRid, writes, last, live,
                   revoked, preq, pres, procs, table>>

\* the requests of the session manager's specification: reads of both
\* routers, a deletion, and a creation and an update of a user and of a role
Probes ==
    {<<"users", "GET", 0, EmptyBody>>, <<"roles", "GET", 0, EmptyBody>>}
      \cup {<<"users", "DELETE", i, EmptyBody>> : i \in 1..MaxUsers}
      \cup {<<"users", "POST", 0, b>> : b \in NewUserBodies}
      \cup {<<"users", "PATCH", 2, [name |-> "renamed"]>>}
      \cup {<<"roles", "PATCH", 1, b>> : b \in RolePatchBodies}

Next ==
    \/ \E e \in Emails, p \in Passwords : Login(e, p)
    \/ \E c \in Cookies : Logout(c)
    \/ \E q \in Probes, c \in Cookies : Request(q[1], q[2], q[3], q[4], c)
    \/ \E c \in Cookies, f \in Faults : FailingRequest(c, f)
    \/ \E d \in {1, TokenTTL} : Tick(d)
    \/ ExpireSession

Spec == Init /\ [][Next]_vars


----------------------------------------------------------------------------
(* The user and role API, with users 1 and 2 logged in: every request of    *)
(* the two routers, and registration.                                       *)

CrudInit ==
    /\ users = (1 :> UserDoc(1, "e1", "root", hashPassword("pw1"), {"admin_granted"}, {}))
            @@ (2 :> UserDoc(2, "e2", "user", hashPassword("pw1"), {}, {ObjectId(1)}))
    /\ roles = (1 :> RoleDoc(1, "guest", {}))
            @@ (2 :> RoleDoc(2, "admin", {"admin_granted"}))
    /\ sessions = AuthCreate(AuthCreate(EmptyBag, signJwt(1, 0), 1, 0), signJwt(2, 0), 2, 0)
    /\ now = 0
    /\ ticks = 0
    /\ nextUid = 3
    /\ nextRid = 3
    /\ writes = 0
    /\ last = Idle
    /\ procs = Idling
    /\ table = permissions
    /\ live = {signJwt(1, 0), signJwt(2, 0)}
    /\ revoked = {}
    /\ preq = Null
    /\ pres = Null

CrudNext ==
    \/ \E m \in Modules, h \in HttpMethods, i \in 0..MaxUsers, c \in live \cup {NoToken} :
          \E b \in Bodies(m, h) : Request(m, h, i, b, c)
    \/ \E b \in RegisterBodies : Register(b)

CrudSpec == CrudInit /\ [][CrudNext]_vars

----------------------------------------------------------------------------
(* getPermissions alone: a request is drawn, and the middleware decides it  *)

PermissionStrings == {"admin_granted", "users_read", "roles_delete", "viewer"}

\* what req.currentUser.roles may hold: role documents, and bare ObjectIds
RoleElements ==
    {RoleDoc(1, "admin", {"admin_granted"}), RoleDoc(2, "viewer", {"viewer"}),
     RoleDoc(3, "reader", {"users_read", "viewer"}), ObjectId(4)}

\* the identities a request may carry: every combination of direct
\* permissions and roles, and no identity at all (findById returned null)
Identities ==
    {[id |-> 1, permissions |-> ps, roles |-> rs] :
        ps \in SUBSET PermissionStrings, rs \in SUBSET RoleElements}
      \cup {Null}

\* a req.currentUser with a field left undefined: no roles, or no permissions
MalformedIdentities ==
    {[id |-> 1, permissions |-> ps] : ps \in {{}, {"admin_granted"}, {"viewer"}}}
      \cup {[id |-> 1, roles |-> rs] :
                rs \in {{}, {RoleDoc(1, "admin", {"admin_granted"})}}}

Urls ==
    {<<"api", "v1", "users">>, <<"api", "v1", "users", "1">>,
     <<"api", "v1", "roles", "?", "page=1">>, <<"api", "v1", "roles", "2">>}

Pending == [pending |-> TRUE]

PermInit ==
    /\ users = <<>>
    /\ roles = <<>>
    /\ sessions = EmptyBag
    /\ now = 0
    /\ ticks = 0
    /\ nextUid = 1
    /\ nextRid = 1
    /\ writes = 0
    /\ last = Idle
    /\ procs = Idling
    /\ table = permissions
    /\ live = {}
    /\ revoked = {}
    /\ preq \in [currentUser : Identities \cup MalformedIdentities,
                 method : HttpMethods, originalUrl : Urls]
    /\ pres = Pending

PermDecide ==
    /\ pres = Pending
    /\ pres' = getPermissions(preq.currentUser, preq.method, preq.originalUrl)
    /\ table' = IF preq.currentUser = Null THEN table
                ELSE TableAfter(table, preq.method, preq.originalUrl)
    /\ UNCHANGED <<svars, preq>>

PermNext == PermDecide

PermSpec == PermInit /\ [][PermNext]_vars


----------------------------------------------------------------------------
(* Error responses: errorMiddleware answers what was handed to next, the    *)
(* errorHandler wrapper what a controller threw, and the logout controller  *)
(* answers a failed revoke itself.  A JSON value is tagged with its type.   *)

NoErrors == [undefined |-> TRUE]                 \* errors was not given

\* an HttpError as raised, with its errors argument
Raised(err, errors) == [kind |-> "HttpError", err |-> err, errors |-> errors]

\* a ZodError: its issues, each a path and a message
ZodError(issues) == [kind |-> "ZodError", issues |-> issues]
Issue(path) == [path |-> path, message |-> "Invalid " \o Head(path)]

\* any other Error: name, message and stack are not enumerable, props are
Thrown(name, message, props) ==
    [kind |-> "Error", name |-> name, message |-> message,
     stack |-> name \o ": " \o message \o " at <anonymous>", props |-> props]

\* error.path.join(".")
RECURSIVE Join(_)
Join(path) ==
    IF path = <<>> THEN ""
    ELSE IF Len(path) = 1 THEN Head(path)
    ELSE Head(path) \o "." \o Join(Tail(path))

\* new ValidationError(zodError): the issues as {field, message}
formattedErrors(issues) ==
    [list |-> [i \in DOMAIN issues |->
                  [field |-> Join(issues[i].path), message |-> issues[i].message]]]

\* a value that is falsy in "if (error.errors)"
Falsy(v) == v \in {NoErrors, Null}

\* JSON.stringify of a value of a response body: an Error object leaves
\* its enumerable properties, every other value is written as it is
Json(v) == IF "kind" \in DOMAIN v /\ v.kind = "Error" THEN [object |-> v.props] ELSE v

errorMiddleware(error) ==
    IF error.kind = "HttpError"
    THEN [status |-> error.err.statusCode,
          body |-> IF Falsy(error.errors)
                   THEN [message |-> error.err.message,
                         errorCode |-> error.err.errorCode]
                   ELSE [message |-> error.err.message,
                         errorCode |-> error.err.errorCode,
                         errors |-> Json(error.errors)]]
    ELSE [status |-> 500,
          body |-> [message |-> "Internal Server Error",
                    errorCode |-> INTERNAL_SERVER_ERROR]]

\* the HttpError the errorHandler wrapper answers with
errorResponse(error) ==
    IF error.kind = "HttpError" THEN error
    ELSE IF error.kind = "ZodError"
    THEN Raised(ValidationError, formattedErrors(error.issues))
    ELSE Raised(Unexpected, error)

\* res.json drops a key whose value is undefined
errorHandler(error) ==
    [status |-> errorResponse(error).err.statusCode,
     body |-> IF errorResponse(error).errors = NoErrors
              THEN [message |-> errorResponse(error).err.message,
                    code |-> errorResponse(error).err.errorCode]
              ELSE [message |-> errorResponse(error).err.message,
                    code |-> errorResponse(error).err.errorCode,
                    details |-> Json(errorResponse(error).errors)]]

\* the logout controller when revoke returned false
logoutFailed == [status |-> 400, body |-> [message |-> "Failed to logout"]]

\* the HttpErrors the middlewares, services and controllers raise
HttpFailures ==
    {Raised(UnauthorizedError("Invalid credentials", INVALID_CREDENTIALS), NoErrors),
     Raised(InternalError("Token verification failed", TOKEN_EXPIRED), NoErrors),
     Raised(ForbiddenError("Insufficient permissions", FORBIDDEN), NoErrors),
     Raised(InternalError("Permission validation failed", INTERNAL_SERVER_ERROR), NoErrors),
     Raised(BadRequestError("Role not found", DOCUMENTS_NOT_FOUND), Null),
     Raised(InternalError("Role validation failed", INTERNAL_SERVER_ERROR), NoErrors),
     Raised(BadRequestError("Invalid credentials", INVALID_CREDENTIALS), Null),
     Raised(InternalError("Failed to create user", INTERNAL_SERVER_ERROR), Null),
     Raised(NotFoundError("No users found", DOCUMENTS_NOT_FOUND), Null),
     Raised(NotFoundError("User not found", DOCUMENT_NOT_FOUND), Null),
     Raised(ConflictError("User cannot modify their own roles", SELF_DEMOTION), NoErrors),
     Raised(ConflictError("Users cannot delete their own account", SELF_DEMOTION), NoErrors),
     Raised(InternalError("Failed to create role", INTERNAL_SERVER_ERROR), [number |-> 500]),
     Raised(NotFoundError("No roles found", DOCUMENTS_NOT_FOUND), Null),
     Raised(NotFoundError("Role not found", DOCUMENT_NOT_FOUND), Null)}

\* what CreateUserInput.parse, UpdateUserInput.parse and LoginInput.parse throw
ZodErrors ==
    {ZodError(<<Issue(<<f>>)>>) : f \in {"name", "username", "email", "password"}}
      \cup {ZodError(<<Issue(<<"roles", "0">>)>>),
            ZodError(<<Issue(<<"email">>), Issue(<<"password">>)>>),
            ZodError(<<Issue(<<"name">>), Issue(<<"username">>), Issue(<<"email">>),
                       Issue(<<"password">>)>>),
            ZodError(<<Issue(<<"permissions", "1">>)>>)}

\* what else a controller throws: a TypeError on a null currentUser, the
\* driver's duplicate-key error, Mongoose's CastError and ValidationError,
\* a lost connection
OtherErrors ==
    {Thrown("TypeError", "Cannot read properties of null (reading 'id')", <<>>),
     Thrown("MongoServerError", "E11000 duplicate key error",
            [codeName |-> "DuplicateKey", keyValue |-> "e1"]),
     Thrown("CastError", "Cast to ObjectId failed",
            [path |-> "_id", stringValue |-> "abc"]),
     Thrown("MongoServerError", "E11000 duplicate key error",
            [codeName |-> "DuplicateKey", keyValue |-> "admin"]),
     Thrown("ValidationError", "Role validation failed: name is required",
            [errors |-> "name", message |-> "Role validation failed"]),
     Thrown("MongoNetworkError", "connection closed", <<>>)}

Failures == HttpFailures \cup ZodErrors \cup OtherErrors

\* revoke returned false
RevokeFailed == [kind |-> "revoke"]

ErrInit ==
    /\ users = <<>>
    /\ roles = <<>>
    /\ sessions = EmptyBag
    /\ now = 0
    /\ ticks = 0
    /\ nextUid = 1
    /\ nextRid = 1
    /\ writes = 0
    /\ last = Idle
    /\ procs = Idling
    /\ table = permissions
    /\ live = {}
    /\ revoked = {}
    /\ preq \in [how : {"next", "throw"}, error : Failures]
                   \cup {[how |-> "logout", error |-> RevokeFailed]}
    /\ pres = Pending

\* next(error): answered by errorMiddleware
PassedToNext ==
    /\ pres = Pending
    /\ preq.how = "next"
    /\ pres' = errorMiddleware(preq.error)
    /\ UNCHANGED <<svars, preq, table>>

\* a throw inside a wrapped controller: answered by errorHandler
ThrownInHandler ==
    /\ pres = Pending
    /\ preq.how = "throw"
    /\ pres' = errorHandler(preq.error)
    /\ UNCHANGED <<svars, preq, table>>

LogoutFails ==
    /\ pres = Pending
    /\ preq.how = "logout"
    /\ pres' = logoutFailed
    /\ UNCHANGED <<svars, preq, table>>

ErrNext == PassedToNext \/ ThrownInHandler \/ LogoutFails

ErrSpec == ErrInit /\ [][ErrNext]_vars

----------------------------------------------------------------------------
(* Concurrent clients of one identity: each logs in and then logs out, and  *)
(* the server interleaves their requests at every await on a store.         *)

ConcInit ==
    /\ users = (1 :> UserDoc(1, "e1", "root", hashPassword("pw1"), {"admin_granted"}, {}))
            @@ (2 :> UserDoc(2, "e2", "user", hashPassword("pw1"), {}, {ObjectId(1)}))
    /\ roles = (1 :> RoleDoc(1, "guest", {}))
            @@ (2 :> RoleDoc(2, "admin", {"admin_granted"}))
    /\ sessions = EmptyBag
    /\ now = 0
    /\ ticks = 0
    /\ nextUid = 3
    /\ nextRid = 3
    /\ writes = 0
    /\ last = Idle
    /\ procs = Idling
    /\ table = permissions
    /\ live = {}
    /\ revoked = {}
    /\ preq = Null
    /\ pres = Null

\* what a step of client p leaves alone, the session store aside
ConcFrame == UNCHANGED <<users, roles, now, ticks, nextUid, nextRid, writes, last, live,
                         revoked, preq, pres, table>>

\* login: await userRepository.findOne({email})
LoginFindOne(p) ==
    /\ procs[p].pc = "start"
    /\ procs' = [procs EXCEPT ![p].pc = "found", ![p].user = UserFindOne(users, "e1")]
    /\ UNCHANGED sessions
    /\ ConcFrame

\* login: the credential check, then signJwt({sub: user._id})
LoginSign(p) ==
    /\ procs[p].pc = "found"
    /\ procs' = IF LoginError(procs[p].user, "pw1") # NoError
                THEN [procs EXCEPT ![p].pc = "failed"]
                ELSE [procs EXCEPT ![p].pc = "signed",
                                   ![p].token = signJwt(procs[p].user.id, now)]
    /\ UNCHANGED sessions
    /\ ConcFrame

\* login: await authRepository.create({token, userId}), then the token is returned
LoginCreate(p) ==
    /\ procs[p].pc = "signed"
    /\ sessions' = AuthCreate(sessions, procs[p].token, procs[p].user.id, now)
    /\ procs' = [procs EXCEPT ![p].pc = "in"]
    /\ ConcFrame

\* logout, verifyToken: the cookie, verifyJwt, await authRepository.findValid(token);
\* a throw of verifyJwt ends in the catch block (500), no session in 401
LogoutFindValid(p) ==
    /\ procs[p].pc = "in"
    /\ procs' = IF JwtThrows(procs[p].token, now)
                THEN [procs EXCEPT ![p].pc = "broken"]
                ELSE IF findValid(sessions, procs[p].token) = Null
                THEN [procs EXCEPT ![p].pc = "refused"]
                ELSE [procs EXCEPT ![p].pc = "valid"]
    /\ UNCHANGED sessions
    /\ ConcFrame

\* logout, verifyToken: await userRepository.findById(payload.sub), then next()
LogoutFindById(p) ==
    /\ procs[p].pc = "valid"
    /\ procs' = [procs EXCEPT ![p].pc = "identified",
                              ![p].user = UserFindById(users, procs[p].token.sub)]
    /\ UNCHANGED sessions
    /\ ConcFrame

\* logout controller: await authService.logout(token), 400 unless a row was
\* deleted; clearAuthCookie only before the 200
LogoutRevoke(p) ==
    /\ procs[p].pc = "identified"
    /\ sessions' = RevokeStore(sessions, procs[p].token)
    /\ procs' = [procs EXCEPT ![p].pc = IF revoke(sessions, procs[p].token)
                                        THEN "out" ELSE "out400",
                              ![p].cleared = revoke(sessions, procs[p].token)]
    /\ ConcFrame

ConcNext ==
    \/ \E p \in 1..MaxProcs : LoginFindOne(p)
    \/ \E p \in 1..MaxProcs : LoginSign(p)
    \/ \E p \in 1..MaxProcs : LoginCreate(p)
    \/ \E p \in 1..MaxProcs : LogoutFindValid(p)
    \/ \E p \in 1..MaxProcs : LogoutFindById(p)
    \/ \E p \in 1..MaxProcs : LogoutRevoke(p)
    \/ Tick(1)

ConcSpec == ConcInit /\ [][ConcNext]_vars

----------------------------------------------------------------------------
(* Requests that overlap updates of the stores: a guarded request is split  *)
(* at the awaits of verifyToken, and the store writes of PATCH              *)
(* /api/v1/users/<id> and PATCH /api/v1/roles/<id> fall in between.         *)

\* a request that has not arrived yet
Arriving ==
    [p \in 1..MaxProcs |->
        [pc |-> "start", user |-> Null, token |-> NoToken, method |-> "",
         module |-> "", seen |-> {}, decision |-> Null]]

FreshInit ==
    /\ users = (1 :> UserDoc(1, "e1", "root", hashPassword("pw1"), {"admin_granted"}, {}))
            @@ (2 :> UserDoc(2, "e2", "user", hashPassword("pw1"), {}, {ObjectId(1)}))
    /\ roles = (1 :> RoleDoc(1, "guest", {}))
            @@ (2 :> RoleDoc(2, "admin", {"admin_granted"}))
    /\ sessions = AuthCreate(AuthCreate(EmptyBag, signJwt(1, 0), 1, 0), signJwt(2, 0), 2, 0)
    /\ now = 0
    /\ ticks = 0
    /\ nextUid = 3
    /\ nextRid = 3
    /\ writes = 0
    /\ last = Idle
    /\ procs = Arriving
    /\ table = permissions
    /\ live = {signJwt(1, 0), signJwt(2, 0)}
    /\ revoked = {}
    /\ preq = Null
    /\ pres = Null

\* what a step of a request in flight leaves alone
FreshFrame == UNCHANGED <<users, roles, sessions, now, ticks, nextUid, nextRid, writes,
                          last, live, revoked, preq, pres>>

\* the guarded requests drawn: GET /api/v1/users, GET and DELETE /api/v1/roles
FreshProbes == {<<"GET", "users">>, <<"GET", "roles">>, <<"DELETE", "roles">>}

\* a request arrives; verifyToken: the cookie, verifyJwt, await findValid(token)
ReqFindValid(p, cookie, method, module) ==
    /\ procs[p].pc = "start"
    /\ procs' = IF JwtThrows(cookie, now) \/ findValid(sessions, cookie) = Null
                THEN [procs EXCEPT ![p].pc = "refused"]
                ELSE [procs EXCEPT ![p].pc = "valid", ![p].token = cookie,
                                   ![p].method = method, ![p].module = module,
                                   ![p].seen = {UserFindById(users, cookie.sub)}]
    /\ UNCHANGED table
    /\ FreshFrame

\* an identity kept from an earlier request with the same subject
CurrentUserShared(p, ustore) ==
    IF \E q \in 1..MaxProcs : procs[q].user # Null /\ procs[q].token = procs[p].token
    THEN procs[CHOOSE q \in 1..MaxProcs :
                   procs[q].user # Null /\ procs[q].token = procs[p].token].user
    ELSE UserFindById(ustore, procs[p].token.sub)

\* req.currentUser = await userRepository.findById(payload.sub)
CurrentUserOf(p, ustore) == UserFindById(ustore, procs[p].token.sub)

\* verifyToken: await findById, req.currentUser is set, next()
ReqFindById(p) ==
    /\ procs[p].pc = "valid"
    /\ procs' = [procs EXCEPT ![p].pc = "identified",
                              ![p].user = CurrentUserOf(p, users)]
    /\ UNCHANGED table
    /\ FreshFrame

\* getPermissions decides on req.currentUser
ReqGetPermissions(p) ==
    /\ procs[p].pc = "identified"
    /\ procs' = [procs EXCEPT ![p].pc = "decided",
                              ![p].decision = getPermissions(procs[p].user, procs[p].method,
                                                             Url(procs[p].module, 0))]
    /\ table' = IF procs[p].user = Null THEN table
                ELSE TableAfter(table, procs[p].method, Url(procs[p].module, 0))
    /\ FreshFrame

\* the requests between verifyToken's findValid and their decision, by subject
InFlight(i) ==
    {p \in 1..MaxProcs : procs[p].pc \in {"valid", "identified"} /\ procs[p].token.sub = i}

PermissionPatches == {[permissions |-> {"users_read"}], [permissions |-> {"roles_read"}]}

\* updateUser: await userService.updateUser(id, userData), the store write
\* of a PATCH /api/v1/users/<id>; the requests in flight have overlapped it
StoreUpdateUser(i, body) ==
    /\ writes < MaxWrites
    /\ i \in DOMAIN users
    /\ UpdatedDoc(users[i], body, UpdatableUserFields) # users[i]
    /\ users' = [users EXCEPT ![i] = UpdatedDoc(@, body, UpdatableUserFields)]
    /\ writes' = writes + 1
    /\ procs' = [p \in 1..MaxProcs |->
                    IF p \in InFlight(i)
                    THEN [procs[p] EXCEPT
                             !.seen = @ \cup {UpdatedDoc(users[i], body, UpdatableUserFields)}]
                    ELSE procs[p]]
    /\ UNCHANGED <<roles, sessions, now, ticks, nextUid, nextRid, last, live, revoked,
                   preq, pres, table>>

\* updateRole: await roleService.updateRole(id, data), the store write of a
\* PATCH /api/v1/roles/<id>
StoreUpdateRole(i, body) ==
    /\ writes < MaxWrites
    /\ i \in DOMAIN roles
    /\ updateRole(i, body, roles).store # roles
    /\ roles' = updateRole(i, body, roles).store
    /\ writes' = writes + 1
    /\ UNCHANGED <<users, sessions, now, ticks, nextUid, nextRid, last, live, revoked,
                   preq, pres, procs, table>>

FreshNext ==
    \/ \E p \in 1..MaxProcs, c \in live, q \in FreshProbes : ReqFindValid(p, c, q[1], q[2])
    \/ \E p \in 1..MaxProcs : ReqFindById(p)
    \/ \E p \in 1..MaxProcs : ReqGetPermissions(p)
    \/ \E i \in 1..MaxUsers, b \in PermissionPatches : StoreUpdateUser(i, b)
    \/ \E i \in 1..MaxRoles, b \in RolePatchBodies : StoreUpdateRole(i, b)

FreshSpec == FreshInit /\ [][FreshNext]_vars

----------------------------------------------------------------------------
(* Concurrent logouts of one session: every client presents the token of    *)
(* the one session row, while the clock runs and the TTL monitor works.     *)

\* clients holding the access_token cookie of user i's session, about to
\* log out
Leaving(i) ==
    [p \in 1..MaxProcs |->
        [pc |-> "in", user |-> Null, token |-> signJwt(i, 0), cleared |-> FALSE]]

OutInit ==
    /\ users = (1 :> UserDoc(1, "e1", "root", hashPassword("pw1"), {"admin_granted"}, {}))
            @@ (2 :> UserDoc(2, "e2", "user", hashPassword("pw1"), {}, {ObjectId(1)}))
    /\ roles = (1 :> RoleDoc(1, "guest", {}))
            @@ (2 :> RoleDoc(2, "admin", {"admin_granted"}))
    /\ \E i \in DOMAIN users :
          /\ sessions = AuthCreate(EmptyBag, signJwt(i, 0), i, 0)
          /\ procs = Leaving(i)
          /\ live = {signJwt(i, 0)}
    /\ now = 0
    /\ ticks = 0
    /\ nextUid = 3
    /\ nextRid = 3
    /\ writes = 0
    /\ last = Idle
    /\ table = permissions
    /\ revoked = {}
    /\ preq = Null
    /\ pres = Null

OutNext ==
    \/ \E p \in 1..MaxProcs : LogoutFindValid(p)
    \/ \E p \in 1..MaxProcs : LogoutFindById(p)
    \/ \E p \in 1..MaxProcs : LogoutRevoke(p)
    \/ \E d \in {1, TokenTTL} : Tick(d)
    \/ ExpireSession

OutSpec == OutInit /\ [][OutNext]_vars

----------------------------------------------------------------------------
(* Logins that overlap changes of the credential store: the login           *)
(* controller looks the user up a second time, by email, after              *)
(* AuthService.login has returned the token.                                *)

RaceInit ==
    /\ users = (1 :> UserDoc(1, "e1", "root", hashPassword("pw1"), {"admin_granted"}, {}))
            @@ (2 :> UserDoc(2, "e2", "user", hashPassword("pw1"), {}, {ObjectId(1)}))
    /\ roles = (1 :> RoleDoc(1, "guest", {}))
            @@ (2 :> RoleDoc(2, "admin", {"admin_granted"}))
    /\ sessions = EmptyBag
    /\ now = 0
    /\ ticks = 0
    /\ nextUid = 3
    /\ nextRid = 3
    /\ writes = 0
    /\ last = Idle
    /\ procs = Idling
    /\ table = permissions
    /\ live = {}
    /\ revoked = {}
    /\ preq = Null
    /\ pres = Null

\* login controller: await userRepository.findOne({email}), setAuthCookie,
\* res.json({sub, email, username}) of the user found
LoginRespond(p) ==
    /\ procs[p].pc = "in"
    /\ procs' = [procs EXCEPT ![p] =
                    [pc |-> "answered", user |-> procs[p].user, token |-> procs[p].token,
                     cleared |-> FALSE, body |-> loginBody(UserFindOne(users, "e1"))]]
    /\ UNCHANGED sessions
    /\ ConcFrame

EmailPatches == {[email |-> "e9"], [name |-> "renamed"]}

\* deleteUser: await userService.deleteUser(id), the store write of a
\* DELETE /api/v1/users/<id>
StoreDeleteUser(i) ==
    /\ writes < MaxWrites
    /\ i \in DOMAIN users
    /\ users' = Without(users, i)
    /\ writes' = writes + 1
    /\ UNCHANGED <<roles, sessions, now, ticks, nextUid, nextRid, last, live, revoked,
                   preq, pres, procs, table>>

RaceNext ==
    \/ \E p \in 1..MaxProcs : LoginFindOne(p)
    \/ \E p \in 1..MaxProcs : LoginSign(p)
    \/ \E p \in 1..MaxProcs : LoginCreate(p)
    \/ \E p \in 1..MaxProcs : LoginRespond(p)
    \/ \E i \in 1..MaxUsers, b \in EmailPatches :
          /\ "email" \in DOMAIN b => ~EmailTaken(users, b.email)
          /\ StoreUpdateUser(i, b)
    \/ \E i \in 1..MaxUsers : StoreDeleteUser(i)

RaceSpec == RaceInit /\ [][RaceNext]_vars

----------------------------------------------------------------------------
(* checkRole in front of its three routes: a request with a roles field is  *)
(* drawn, with a Role store that has the roles asked for, some, or none.    *)

\* the roles field of the body: absent, the empty list, or a list of names
RoleAsks == {{}, {"guest"}, {"admin"}, {"ghost"}, {"admin", "ghost"}, {"guest", "admin"}}

RoleRoutes == {"register", "create", "update"}

\* the body sent to the route, without a roles field
BaseBody(route) ==
    IF route = "update" THEN [name |-> "renamed"]
    ELSE [name |-> "new", email |-> "e3", password |-> "pw1"]

RoleRequests ==
    {[route |-> r, body |-> BaseBody(r)] : r \in RoleRoutes}
      \cup {[route |-> r, body |-> BaseBody(r) @@ [roles |-> a]] :
                r \in RoleRoutes, a \in RoleAsks}

RoleStores ==
    {(1 :> RoleDoc(1, "guest", {})) @@ (2 :> RoleDoc(2, "admin", {"admin_granted"})),
     (2 :> RoleDoc(2, "admin", {"admin_granted"})),
     <<>>}

RoleInit ==
    /\ users = (1 :> UserDoc(1, "e1", "root", hashPassword("pw1"), {"admin_granted"}, {}))
            @@ (2 :> UserDoc(2, "e2", "user", hashPassword("pw1"), {}, {ObjectId(2)}))
    /\ roles \in RoleStores
    /\ sessions = AuthCreate(EmptyBag, signJwt(1, 0), 1, 0)
    /\ now = 0
    /\ ticks = 0
    /\ nextUid = 3
    /\ nextRid = 3
    /\ writes = 0
    /\ last = Idle
    /\ procs = Idling
    /\ table = permissions
    /\ live = {signJwt(1, 0)}
    /\ revoked = {}
    /\ preq \in RoleRequests
    /\ pres = Null

\* the request drawn is sent: POST /api/v1/auth/register, or POST
\* /api/v1/users or PATCH /api/v1/users/2 by the logged-in user 1
RoleNext ==
    \/ preq.route = "register" /\ Register(preq.body)
    \/ preq.route = "create" /\ Request("users", "POST", 0, preq.body, signJwt(1, 0))
    \/ preq.route = "update" /\ Request("users", "PATCH", 2, preq.body, signJwt(1, 0))

RoleSpec == RoleInit /\ [][RoleNext]_vars

----------------------------------------------------------------------------
(* One request through its handlers: the calls each handler makes (next(), *)
(* next(error), res.json, a throw) and where Express takes the request     *)
(* after each of them.                                                     *)

\* one statement of a handler: on the paths in "on" the handler "by" makes
\* the call "does", and "returns" tells whether the handler ends there
Stmt(by, on, does, returns) == [by |-> by, on |-> on, does |-> does, returns |-> returns]

\* the calls a block makes on a path: its statements in order, up to the
\* first that returns or throws
RECURSIVE Walk(_, _)
Walk(block, path) ==
    IF block = <<>> THEN <<>>
    ELSE IF path \notin Head(block).on THEN Walk(Tail(block), path)
    ELSE IF Head(block).returns
    THEN <<[by |-> Head(block).by, does |-> Head(block).does]>>
    ELSE <<[by |-> Head(block).by, does |-> Head(block).does]>>
             \o Walk(Tail(block), path)

\* try { block } catch { handler }: the handler runs when the block threw
TryCatch(block, handler, path) ==
    IF Walk(block, path) # <<>>
         /\ Walk(block, path)[Len(Walk(block, path))].does = "throw"
    THEN SubSeq(Walk(block, path), 1, Len(Walk(block, path)) - 1)
             \o Walk(handler, path)
    ELSE Walk(block, path)

\* the paths through verifyToken: no cookie, verifyJwt or findValid throws,
\* no session row, findById throws, the session is found
VerifyPaths == {"noToken", "verifyThrew", "noSession", "findThrew", "found"}

\* verifyToken with the return missing in front of the second next(error)
verifyTokenFallsThrough(path) ==
    TryCatch(<<Stmt("verifyToken", {"noToken"}, "next(error)", TRUE),
               Stmt("verifyToken", {"verifyThrew"}, "throw", TRUE),
               Stmt("verifyToken", {"noSession"}, "next(error)", FALSE),
               Stmt("verifyToken", {"findThrew"}, "throw", TRUE),
               Stmt("verifyToken", VerifyPaths, "next()", FALSE)>>,
             <<Stmt("verifyToken", VerifyPaths, "next(error)", TRUE)>>, path)

verifyTokenCalls(path) ==
    TryCatch(<<Stmt("verifyToken", {"noToken"}, "next(error)", TRUE),
               Stmt("verifyToken", {"verifyThrew"}, "throw", TRUE),
               Stmt("verifyToken", {"noSession"}, "next(error)", TRUE),
               Stmt("verifyToken", {"findThrew"}, "throw", TRUE),
               Stmt("verifyToken", VerifyPaths, "next()", FALSE)>>,
             <<Stmt("verifyToken", VerifyPaths, "next(error)", TRUE)>>, path)

\* the paths through getPermissions: currentUser is null and the
\* destructuring throws, no required permission is held, one is held
PermPaths == {"threw", "denied", "granted"}

getPermissionsCalls(path) ==
    TryCatch(<<Stmt("getPermissions", {"threw"}, "throw", TRUE),
               Stmt("getPermissions", {"denied"}, "next(error)", TRUE),
               Stmt("getPermissions", PermPaths, "next()", FALSE)>>,
             <<Stmt("getPermissions", PermPaths, "next(error)", TRUE)>>, path)

\* the paths through checkRole: findRoles throws, no role is found, some
\* role is found
RolePaths == {"threw", "noRole", "found"}

checkRoleCalls(path) ==
    TryCatch(<<Stmt("checkRole", {"threw"}, "throw", TRUE),
               Stmt("checkRole", {"noRole"}, "next(error)", TRUE),
               Stmt("checkRole", RolePaths, "next()", FALSE)>>,
             <<Stmt("checkRole", RolePaths, "next(error)", TRUE)>>, path)

\* the paths through a controller: parse or the store throws, the
\* controller returns next(error), the controller answers
ControllerPaths == {"throws", "passes", "responds"}

\* errorHandler(method): the controller inside the try, the answer of the
\* catch block, no call of next
errorHandlerCalls(path) ==
    TryCatch(<<Stmt("controller", {"throws"}, "throw", TRUE),
               Stmt("controller", {"passes"}, "next(error)", TRUE),
               Stmt("controller", ControllerPaths, "res.json", FALSE)>>,
             <<Stmt("errorHandler", ControllerPaths, "res.json", FALSE)>>, path)

\* the paths through errorMiddleware: the headers were sent, the error is
\* an HttpError, the error is anything else
ErrorPaths == {"sent", "http", "other"}

errorMiddlewareCalls(path) ==
    Walk(<<Stmt("errorMiddleware", {"sent"}, "next(error)", TRUE),
           Stmt("errorMiddleware", {"http"}, "res.json", TRUE),
           Stmt("errorMiddleware", ErrorPaths, "res.json", FALSE)>>, path)

\* the path errorMiddleware takes for a response and an error
ErrorPath(headersSent, error) ==
    IF headersSent THEN "sent" ELSE IF error = "HttpError" THEN "http" ELSE "other"

\* the handlers of a request in the order the routers mount them: register,
\* login, logout, users GET and DELETE and every roles route, users POST
\* and PATCH
Chains ==
    {<<"checkRole", "controller">>,
     <<"controller">>,
     <<"verifyToken", "controller">>,
     <<"verifyToken", "getPermissions", "controller">>,
     <<"verifyToken", "checkRole", "controller">>}

\* the path each handler of a chain takes
ChainPaths(chain) ==
    {p \in [verifyToken : VerifyPaths \cup {"unused"},
            getPermissions : PermPaths \cup {"unused"},
            checkRole : RolePaths \cup {"unused"},
            controller : ControllerPaths] :
        \A h \in {"verifyToken", "getPermissions", "checkRole"} :
            (p[h] = "unused") <=> (\A i \in DOMAIN chain : chain[i] # h)}

\* a request entering its chain, or an error Express hands to
\* errorMiddleware from outside the chains (express.json refusing the body)
\* before or after the response was started
Entering ==
    UNION {{[chain |-> c, path |-> p, error |-> "none", headersSent |-> FALSE] :
               p \in ChainPaths(c)} : c \in Chains}
      \cup {[chain |-> <<>>, path |-> <<>>, error |-> e, headersSent |-> s] :
              e \in {"HttpError", "Error"}, s \in BOOLEAN}

\* where Express takes the request: the handler "to" of the chain,
\* errorMiddleware or its own final handler
Started(r) ==
    [todo |-> IF r.chain = <<>>
              THEN <<[to |-> "errorMiddleware", error |-> r.error]>>
              ELSE <<[to |-> Head(r.chain), error |-> "none"]>>,
     ran |-> {},
     calls |-> <<>>,
     writes |-> IF r.headersSent THEN <<"started">> ELSE <<>>,
     headersSent |-> r.headersSent]

ChainInit ==
    /\ users = <<>>
    /\ roles = <<>>
    /\ sessions = EmptyBag
    /\ now = 0
    /\ ticks = 0
    /\ nextUid = 1
    /\ nextRid = 1
    /\ writes = 0
    /\ last = Idle
    /\ procs = Idling
    /\ table = permissions
    /\ live = {}
    /\ revoked = {}
    /\ preq \in Entering
    /\ pres = Started(preq)

\* the handler Express runs next
Turn(h) ==
    /\ pres.todo # <<>>
    /\ Head(pres.todo).to = h

\* the handler mounted behind h
Behind(chain, h) == chain[1 + CHOOSE i \in DOMAIN chain : chain[i] = h]

\* next() takes the request to the following handler of the chain,
\* next(error) to errorMiddleware, and from errorMiddleware to Express's
\* final handler
Taken(h, call) ==
    IF call.does = "next()"
    THEN [to |-> Behind(preq.chain, h), error |-> "none"]
    ELSE [to |-> IF h = "errorMiddleware" THEN "finalhandler" ELSE "errorMiddleware",
          error |-> IF h = "errorMiddleware" THEN Head(pres.todo).error ELSE "HttpError"]

IsNext(call) == call.does \in {"next()", "next(error)"}

IsWrite(call) == call.does = "res.json"

\* the handler h runs and makes its calls
HandledBy(h, calls) ==
    /\ pres' = [todo |-> Tail(pres.todo)
                           \o [i \in 1..Len(SelectSeq(calls, IsNext)) |->
                                  Taken(h, SelectSeq(calls, IsNext)[i])],
                ran |-> pres.ran \cup {h},
                calls |-> pres.calls \o calls,
                writes |-> pres.writes
                             \o [i \in 1..Len(SelectSeq(calls, IsWrite)) |->
                                    SelectSeq(calls, IsWrite)[i].by],
                headersSent |-> pres.headersSent \/ SelectSeq(calls, IsWrite) # <<>>]
    /\ UNCHANGED <<svars, preq, table>>

RunVerifyToken ==
    /\ Turn("verifyToken")
    /\ HandledBy("verifyToken", verifyTokenCalls(preq.path.verifyToken))

RunGetPermissions ==
    /\ Turn("getPermissions")
    /\ HandledBy("getPermissions", getPermissionsCalls(preq.path.getPermissions))

RunCheckRole ==
    /\ Turn("checkRole")
    /\ HandledBy("checkRole", checkRoleCalls(preq.path.checkRole))

RunController ==
    /\ Turn("controller")
    /\ HandledBy("controller", errorHandlerCalls(preq.path.controller))

RunErrorMiddleware ==
    /\ Turn("errorMiddleware")
    /\ HandledBy("errorMiddleware",
              errorMiddlewareCalls(ErrorPath(pres.headersSent, Head(pres.todo).error)))

\* Express's final handler after errorMiddleware's next(error): the headers
\* are sent, so it writes nothing and closes the connection
RunFinalHandler ==
    /\ Turn("finalhandler")
    /\ HandledBy("finalhandler", <<>>)

ChainNext ==
    \/ RunVerifyToken
    \/ RunGetPermissions
    \/ RunCheckRole
    \/ RunController
    \/ RunErrorMiddleware
    \/ RunFinalHandler

ChainSpec == ChainInit /\ [][ChainNext]_vars

----------------------------------------------------------------------------
(* Properties of the session manager (Spec)                                 *)

\* a request or a logout: the operations that run verifyToken, the stores
\* answering
Verified == last.op \in {"request", "logout"} /\ last.fault = "none"

\* C1: once logout has returned for a token login issued, every later
\* verifyToken carrying that token ends with an Unauthorized error, attaches
\* no identity and does not reach the handler.  (Stated for a token whose
\* signature still verifies; what an expired token gets is C2's subject.)
C1_RevokedTokenUnauthorized ==
    (Verified /\ last.cookieState = "revoked" /\ last.fresh) =>
        /\ last.err.class = "UnauthorizedError"
        /\ ~last.attached
        /\ ~last.ran

\* C2: verifyToken with a token whose cryptographic verification fails
\* (malformed, bad signature, expired) ends with an Unauthorized (401) error
\* and never with an InternalError (500).
C2_VerificationFailureUnauthorized ==
    (Verified /\ last.cookieState # "absent" /\ ~last.fresh) =>
        /\ last.err.class = "UnauthorizedError"
        /\ last.status = 401

\* C3: a handler of /users or /roles runs only for a request on which
\* verifyToken succeeded and getPermissions decided ALLOW.
C3_HandlerOnlyOnAllow ==
    (last.op = "request" /\ last.ran) =>
        /\ last.attached
        /\ last.decided = "ALLOW"

\* C4: for a token login returned, not logged out and less than an hour old,
\* verifyToken passes the request on with req.currentUser set to the identity
\* whose id is the token's subject, whatever happened in between.
C4_LiveTokenAuthenticates ==
    (Verified /\ last.cookieState = "live" /\ last.fresh) =>
        /\ last.attached
        /\ last.cu = last.sub

\* the email is that of a stored identity and the password is its secret
CorrectCredentials(email, password) ==
    \E i \in DOMAIN users :
        users[i].email = email /\ users[i].password = hashPassword(password)

KnownEmail(email) == \E i \in DOMAIN users : users[i].email = email

\* C5: for every stored identity and its correct secret, login returns a
\* token and adds exactly one Session row {token, userId = the identity's id,
\* revoked = false}; the row is stored by the time the token is returned.
C5_LoginStoresOneSession ==
    /\ [](last.op = "login" /\ CorrectCredentials(last.email, last.password)
            => last.status = 200 /\ last.token.kind = "jwt")
    /\ [][(/\ last'.op = "login"
           /\ last'.status = 200
           /\ last' # last \/ BagCardinality(sessions') > BagCardinality(sessions))
          => /\ last'.token.kind = "jwt"
             /\ \E i \in DOMAIN users : users[i].email = last'.email /\ i = last'.cu
             /\ \E r \in BagToSet(sessions') :
                   /\ sessions' = sessions (+) SetToBag({r})
                   /\ r.token = last'.token
                   /\ r.userId = last'.cu
                   /\ r.revoked = FALSE]_vars

\* a second login of an identity, a second later, is answered with its token
\* and both its rows are stored
C5_SecondLoginStored ==
    /\ last.op = "login"
    /\ last.status = 200
    /\ last.token.iat = 1
    /\ BagCardinality(sessions) = 2
    /\ \A r \in BagToSet(sessions) : r.userId = last.cu /\ r.revoked = FALSE
    /\ \E r \in BagToSet(sessions) : r.token = last.token

\* C6: login fails with the same error (class, status, message and the
\* INVALID_CREDENTIALS code) for an unknown email with any secret and for a
\* known email with a wrong secret.
C6_LoginFailuresAlike ==
    (last.op = "login" /\ last.status # 200) =>
        /\ last.err = BadRequestError("Invalid credentials", INVALID_CREDENTIALS)
        /\ last.status = 400
        /\ last.token = NoToken
        /\ \A e \in Emails, p \in Passwords :
              LoginError(UserFindOne(users, e), p) \in {NoError, last.err}

\* a login with an unknown email was refused, while a wrong secret for a
\* known email is refused too
C6_UnknownEmailRefused ==
    /\ last.op = "login"
    /\ last.status = 400
    /\ ~KnownEmail(last.email)
    /\ \E e \in Emails, p \in Passwords :
          /\ KnownEmail(e)
          /\ ~CorrectCredentials(e, p)
          /\ LoginError(UserFindOne(users, e), p) = last.err

\* C7: verifyToken ends with an Unauthorized (401) error and attaches no
\* identity when the cookie is absent, and when the token is validly signed
\* but no Session row with that token and revoked = false exists.
C7_NoSessionUnauthorized ==
    (Verified /\ (last.cookieState = "absent" \/ (last.fresh /\ last.rows = 0))) =>
        /\ last.err.class = "UnauthorizedError"
        /\ last.status = 401
        /\ ~last.attached
        /\ ~last.ran

\* a request carrying a token that was logged out, its row gone, got a 401
C7_LoggedOutTokenRefused ==
    /\ last.op = "request"
    /\ last.cookieState = "revoked"
    /\ last.fresh
    /\ last.rows = 0
    /\ last.status = 401

----------------------------------------------------------------------------
(* Properties of the permission resolver (PermSpec)                         *)

\* the request was decided, for an identity with its roles and permissions
Decided ==
    /\ pres # Pending
    /\ preq.currentUser # Null
    /\ {"roles", "permissions"} \subseteq DOMAIN preq.currentUser

\* the scope the policy gives a method
ScopeOf(method) ==
    CASE method = "GET"    -> "read"
      [] method = "POST"   -> "write"
      [] method = "PATCH"  -> "update"
      [] method = "DELETE" -> "delete"

\* the required set: the method's base permissions and <module>_<scope>
RequiredSet(method, url) ==
    IF method \in Methods
    THEN {"admin_granted", url[3] \o "_" \o ScopeOf(method)}
    ELSE {}

\* the union of the permissions of the identity's (populated) roles
RoleUnion(currentUser) ==
    UNION {x.permissions : x \in {y \in currentUser.roles : "permissions" \in DOMAIN y}}

\* the effective set: the direct permissions, or the roles' when there are none
EffectiveSet(currentUser) ==
    IF currentUser.permissions # {} THEN currentUser.permissions
    ELSE RoleUnion(currentUser)

\* C8: getPermissions decides ALLOW if and only if the identity's effective
\* permission set and the required set {base permissions} + {<module>_<scope>}
\* share a permission; otherwise it decides DENY (ForbiddenError).
C8_AllowIffShared ==
    Decided =>
        /\ pres = NoError <=>
              RequiredSet(preq.method, preq.originalUrl)
                 \cap EffectiveSet(preq.currentUser) # {}
        /\ pres # NoError => pres = ForbiddenError("Insufficient permissions", FORBIDDEN)

\* a request was allowed on the module-scoped permission alone
C8_AllowedOnOneShared ==
    /\ Decided
    /\ pres = NoError
    /\ "admin_granted" \notin EffectiveSet(preq.currentUser)
    /\ Cardinality(RequiredSet(preq.method, preq.originalUrl)
                      \cap EffectiveSet(preq.currentUser)) = 1

\* C23: for a method of the policy table and a path /api/v1/<module>[/...]
\* with or without a query string, the required permissions getPermissions
\* uses are exactly admin_granted and <module>_<scope>, the scope being that
\* of the method and the module the first segment after /api/v1/.
C23_RequiredSetExact ==
    (pres # Pending /\ preq.method \in Methods) =>
        /\ RequiredPermissions(preq.method, preq.originalUrl)
              = <<"admin_granted", preq.originalUrl[3] \o "_" \o ScopeOf(preq.method)>>
        /\ Decided =>
              (pres = NoError <=>
                  \E i \in 1..2 :
                      RequiredPermissions(preq.method, preq.originalUrl)[i]
                          \in UserPermissions(preq.currentUser))

\* a request on a path with an id or a query string was allowed on the
\* module-scoped permission of its first segment alone
C23_ScopedOnFirstSegment ==
    /\ Decided
    /\ pres = NoError
    /\ Len(preq.originalUrl) > 3
    /\ preq.method \in Methods
    /\ preq.currentUser.permissions
          = {preq.originalUrl[3] \o "_" \o ScopeOf(preq.method)}

\* C9: with a non-empty direct permission set the decision is that of the
\* same identity without roles; only with an empty direct set is the
\* decision that of the union of the role permissions.
C9_DirectOverridesRoles ==
    Decided =>
        pres = getPermissions(
                  [preq.currentUser EXCEPT
                      !.permissions = IF @ # {} THEN @ ELSE RoleUnion(preq.currentUser),
                      !.roles = {}],
                  preq.method, preq.originalUrl)

\* an identity whose role grants access was denied on its direct permissions
C9_RoleGrantOverridden ==
    /\ Decided
    /\ preq.currentUser.permissions # {}
    /\ RequiredSet(preq.method, preq.originalUrl) \cap RoleUnion(preq.currentUser) # {}
    /\ pres = ForbiddenError("Insufficient permissions", FORBIDDEN)

\* C10: for a method with no entry in the permissions table getPermissions
\* decides DENY (ForbiddenError) for every identity, whatever it holds.
C10_UnknownMethodDenied ==
    (Decided /\ preq.method \notin Methods) =>
        pres = ForbiddenError("Insufficient permissions", FORBIDDEN)

\* a PUT of an identity holding admin_granted was denied
C10_AdminPutDenied ==
    /\ Decided
    /\ preq.method = "PUT"
    /\ "admin_granted" \in preq.currentUser.permissions
    /\ pres.class = "ForbiddenError"

\* the identity lacks a field getPermissions reads
Missing(field) ==
    /\ pres # Pending
    /\ preq.currentUser # Null
    /\ field \notin DOMAIN preq.currentUser

\* C15: a throw inside getPermissions while it reads the identity (a missing
\* identity, or a missing permissions field on a method of the table) ends
\* with an InternalError (500) handed to next, never with Forbidden and never
\* with the request let through; a missing roles field is no failure, the
\* request is decided as for an identity without roles.
C15_ThrowIsInternal ==
    pres # Pending =>
        /\ (\/ preq.currentUser = Null
            \/ Missing("permissions") /\ preq.method \in Methods) =>
              pres = InternalError("Permission validation failed", INTERNAL_SERVER_ERROR)
        /\ Missing("roles") =>
              pres = getPermissions(
                        [f \in (DOMAIN preq.currentUser) \cup {"roles"} |->
                            IF f = "roles" THEN {} ELSE preq.currentUser[f]],
                        preq.method, preq.originalUrl)

\* a request that carries no identity was answered with an InternalError
C15_MissingIdentityInternal ==
    /\ pres # Pending
    /\ preq.currentUser = Null
    /\ pres.class = "InternalError"
    /\ pres.statusCode = 500

\* C15 as stated: a missing identity, roles field or permissions field ends
\* with an InternalError
C15_MissingFieldInternal ==
    (pres # Pending /\ (preq.currentUser = Null \/ Missing("roles") \/ Missing("permissions")))
        => pres.class = "InternalError"

----------------------------------------------------------------------------
(* Properties of the session store's revoke (Spec)                          *)

\* how many session rows hold the token, revoked or not
TokenCopies(store, token) ==
    BagCardinality([r \in TokenRows(store, token) |-> CopiesIn(r, store)])

----------------------------------------------------------------------------
(* Properties of concurrent logins (ConcSpec)                               *)

\* the clients whose login has written its session row and whose logout has
\* not removed one yet
Holding == {p \in 1..MaxProcs : procs[p].pc \in {"in", "valid", "identified"}}

\* C19: logins of one identity that run concurrently all succeed in every
\* interleaving of their store accesses and each adds a session row of its
\* own (the store holds, for every token, as many rows as clients holding
\* it); a logout of one of them leaves the token of every other logged-in
\* client passing verifyToken, and no logout is refused or fails.
C19_ConcurrentLoginsIndependent ==
    /\ \A p \in 1..MaxProcs : procs[p].pc \notin {"failed", "refused", "broken", "out400"}
    /\ \A p \in Holding :
          /\ TokenCopies(sessions, procs[p].token)
                = Cardinality({q \in Holding : procs[q].token = procs[p].token})
          /\ \E v \in {verifyToken(procs[p].token, sessions, users, now)} :
                v.err = NoError /\ v.attached /\ v.currentUser.id = 1
    /\ BagCardinality(sessions) = Cardinality(Holding)

\* two clients logged in within the same second and so hold the same token;
\* one has logged out, the other's token still passes verifyToken
C19_OtherSessionSurvives ==
    \E p, q \in 1..MaxProcs :
        /\ p # q
        /\ procs[p].pc = "out"
        /\ procs[q].pc = "in"
        /\ procs[p].token = procs[q].token
        /\ TokenCopies(sessions, procs[q].token) = 1
        /\ verifyToken(procs[q].token, sessions, users, now).err = NoError

----------------------------------------------------------------------------
(* Properties of the attached identity's roles (CrudSpec)                   *)

\* the permission sets of the role documents the user's roles refer to
AssignedRolePermissions(u) ==
    {roles[x.oid].permissions : x \in {y \in u.roles : y.oid \in DOMAIN roles}}

\* the request served last was made by an identity without direct
\* permissions whose only role has exactly the permissions ps
ByRoleOnly(ps) ==
    /\ last.op = "request"
    /\ last.attached
    /\ last.cu \in DOMAIN users
    /\ users[last.cu].permissions = {}
    /\ Cardinality(users[last.cu].roles) = 1
    /\ AssignedRolePermissions(users[last.cu]) = {ps}

\* C20: the identity verifyToken attaches carries its roles as role records,
\* so an identity without direct permissions is decided on the permissions
\* of its roles: with the only role holding {admin_granted} a GET
\* /api/v1/users is allowed, with the only role holding {viewer} a DELETE
\* /api/v1/users/1 is denied with 403.
C20_RolePermissionsDecide ==
    /\ (/\ ByRoleOnly({"admin_granted"})
        /\ last.module = "users" /\ last.method = "GET" /\ last.id = 0)
          => last.decided = "ALLOW"
    /\ (/\ ByRoleOnly({"viewer"})
        /\ last.module = "users" /\ last.method = "DELETE" /\ last.id = 1)
          => (last.decided = "DENY" /\ last.status = 403)

----------------------------------------------------------------------------
(* Properties of the response bodies of the user API (CrudSpec)             *)

\* the user documents serialised into the response served last: the new
\* user of register and createUser, the list of findUsers, the user of
\* findUserById and the updated user of updateUser
SentDocuments ==
    IF last.err # NoError \/ last.status \notin {200, 201} THEN {}
    ELSE IF last.op = "register" THEN {toJSON(users[nextUid - 1])}
    ELSE IF last.op # "request" \/ last.module # "users" THEN {}
    ELSE IF last.method = "POST" THEN {toJSON(users[nextUid - 1])}
    ELSE IF last.method = "GET" /\ last.id = 0 THEN usersBody(users)
    ELSE IF last.method \in {"GET", "PATCH"} THEN {toJSON(users[last.id])}
    ELSE {}

\* C21: no response body of login, register or a user create, read or
\* update carries a password: the documents sent have no password field
\* and the login body has the fields sub, email and username only.
C21_NoPasswordInBodies ==
    /\ \A d \in SentDocuments : "password" \notin DOMAIN d
    /\ \A i \in DOMAIN users :
          DOMAIN loginBody(UserFindOne(users, users[i].email)) = {"sub", "email", "username"}

\* a user was created or updated and the response carried the stored
\* document, which holds a password
C21_StoredDocumentSent ==
    /\ last.op \in {"register", "request"}
    /\ last.method \in {"", "POST", "PATCH"}
    /\ \E d \in SentDocuments : \E i \in DOMAIN users :
          /\ d = toJSON(users[i])
          /\ "password" \in DOMAIN users[i]

----------------------------------------------------------------------------
(* Properties of requests that overlap updates (FreshSpec)                  *)

\* the decisions getPermissions takes on the versions of the identity's
\* document that existed between the request's arrival and now
DecisionsOnSeen(p) ==
    {getPermissions(d, procs[p].method, Url(procs[p].module, 0)) : d \in procs[p].seen}

----------------------------------------------------------------------------
(* Properties of the policy table (CrudSpec)                                *)

\* C24: getPermissions never changes the permissions table: after any
\* requests every entry's base set is still admin_granted alone, so a
\* request is allowed only on admin_granted or on the scoped permission of
\* its own module, never on that of a module served before.
C24_TableNeverChanges ==
    /\ table = permissions
    /\ \A i \in DOMAIN table : table[i].permissions = <<"admin_granted">>
    /\ (/\ last.op = "request" /\ last.decided = "ALLOW"
        /\ last.method \in Methods /\ last.cu \in DOMAIN users)
          => {"admin_granted", last.module \o "_" \o ScopeOf(last.method)}
                \cap UserPermissions(users[last.cu]) # {}

\* an identity that holds roles_read alone was denied on GET /api/v1/users
C24_OtherModuleDenied ==
    /\ last.op = "request"
    /\ last.module = "users" /\ last.method = "GET"
    /\ last.decided = "DENY"
    /\ last.cu \in DOMAIN users
    /\ users[last.cu].permissions = {"roles_read"}

----------------------------------------------------------------------------
(* Properties of the session store's rows (Spec)                            *)

----------------------------------------------------------------------------
(* Properties of concurrent logouts of one session (OutSpec)                *)

\* every logout has been answered
AllAnswered == \A p \in 1..MaxProcs : procs[p].pc \in {"out", "out400", "refused", "broken"}

\* the logouts answered 200 'Logged out successfully'
LoggedOut == {p \in 1..MaxProcs : procs[p].pc = "out"}

\* C26: of the concurrent logouts that carry the token of one session row,
\* presented while the token has not expired, exactly one is answered 200
\* with the cookie cleared; every other one is answered 400 or 401 and keeps
\* its cookie, and none ends with 500.
C26_OneLogoutWins ==
    /\ Cardinality(LoggedOut) <= 1
    /\ \A p \in 1..MaxProcs : procs[p].cleared <=> procs[p].pc = "out"
    /\ ~JwtThrows(procs[1].token, now) =>
          /\ \A p \in 1..MaxProcs : procs[p].pc # "broken"
          /\ AllAnswered => Cardinality(LoggedOut) = 1

\* all logouts were answered in time: one with 200, another with 400 after
\* it had passed verifyToken
C26_LoserGets400 ==
    /\ AllAnswered
    /\ ~JwtThrows(procs[1].token, now)
    /\ \E p, q \in 1..MaxProcs :
          /\ procs[p].pc = "out" /\ procs[p].cleared
          /\ procs[q].pc = "out400" /\ ~procs[q].cleared

\* C26 as stated: whenever the logouts of the one session row have all been
\* answered (the row was removed by one of them, or is still there), exactly
\* one was answered 200 and none 500.
C26_OneLogoutWinsAlways ==
    (AllAnswered /\ (LoggedOut # {} \/ TokenCopies(sessions, procs[1].token) = 1)) =>
        /\ Cardinality(LoggedOut) = 1
        /\ \A p \in 1..MaxProcs : procs[p].pc # "broken"

----------------------------------------------------------------------------
(* Properties of the login response (RaceSpec)                              *)

\* C27: the user info of a successful login response describes the subject
\* of the token the same request put in the cookie, whatever was written to
\* the credential store while the login ran.
C27_BodyDescribesSubject ==
    \A p \in 1..MaxProcs :
        procs[p].pc = "answered" =>
            /\ DOMAIN procs[p].body = {"sub", "email", "username"}
            /\ procs[p].body.sub = procs[p].token.sub

----------------------------------------------------------------------------
(* Properties of checkRole (RoleSpec)                                       *)

\* the names of the roles in the Role store
RoleNames == {roles[i].name : i \in DOMAIN roles}

\* the request drawn was served and checkRole passed it on to its handler
PassedOn == last.op \in {"register", "request"} /\ last.ran

\* C28: checkRole passes a request on only when every role name it asks for
\* (guest when it asks for none) exists in the Role store; when one does not
\* exist the request ends with BadRequest 'Role not found' and no identity
\* is created or changed.
C28_EveryRoleExists ==
    /\ PassedOn => RequestedRoles(preq.body) \subseteq RoleNames
    /\ (last.op \in {"register", "request"}
          /\ ~(RequestedRoles(preq.body) \subseteq RoleNames))
          => /\ last.err = BadRequestError("Role not found", DOCUMENTS_NOT_FOUND)
             /\ DOMAIN users = {1, 2}
             /\ users[2].name = "user" /\ users[2].roles = {ObjectId(2)}

----------------------------------------------------------------------------
(* Properties of updates without a roles field (CrudSpec)                   *)

\* C29: a PATCH on /api/v1/users/<id> whose body has no roles field leaves
\* the role set of every identity as it was and is not refused as a change
\* of the caller's own roles.
C29_PatchWithoutRolesKeepsRoles ==
    [][(/\ last'.op = "request"
        /\ last'.module = "users" /\ last'.method = "PATCH"
        /\ last'.attached
        /\ ~last'.bodyRoles)
          => /\ last'.status # 409
             /\ \A i \in DOMAIN users :
                   i \in DOMAIN users' /\ users'[i].roles = users[i].roles]_vars

----------------------------------------------------------------------------
(* Properties of a request's way through its handlers (ChainSpec)          *)

\* the request has left its last handler
Answered == pres.todo = <<>>

\* the calls of next the handler h made
NextsOf(h) == SelectSeq(pres.calls, LAMBDA c : c.by = h /\ IsNext(c))

\* C30: every request gets exactly one response: verifyToken,
\* getPermissions and checkRole, once they ran, have called next exactly
\* once; when the request has left its last handler exactly one response
\* was written; the errorHandler wrapper and errorMiddleware never both
\* write one; and errorMiddleware writes nothing after the headers were
\* sent, that is, it is never the writer of a second response.
C30_ExactlyOneResponse ==
    /\ \A h \in {"verifyToken", "getPermissions", "checkRole"} :
          h \in pres.ran => Len(NextsOf(h)) = 1
    /\ Answered => Len(pres.writes) = 1
    /\ ~ \E i, j \in DOMAIN pres.writes :
            pres.writes[i] = "errorHandler" /\ pres.writes[j] = "errorMiddleware"
    /\ \A i \in DOMAIN pres.writes : pres.writes[i] = "errorMiddleware" => i = 1
    /\ (preq.headersSent /\ Answered) => pres.writes = <<"started">>

\* C30 witness: a controller wrapped by errorHandler returned next(error)
\* behind verifyToken and getPermissions, and errorMiddleware alone answered
C30_PassedErrorAnsweredOnce ==
    /\ Answered
    /\ preq.chain = <<"verifyToken", "getPermissions", "controller">>
    /\ preq.path.controller = "passes"
    /\ {"verifyToken", "getPermissions", "controller", "errorMiddleware"} \subseteq pres.ran
    /\ pres.writes = <<"errorMiddleware">>

----------------------------------------------------------------------------
(* Properties of the user API (CrudSpec)                                    *)

\* a request on /api/v1/users/<id> made by the identity whose id is <id>
OnOwnRecord(method) ==
    /\ last.op = "request"
    /\ last.module = "users"
    /\ last.method = method
    /\ last.cu # 0
    /\ last.id = last.cu

\* C12: a PATCH on /api/v1/users/<id> by the identity whose id is <id>, with
\* a roles field in the body, ends with a Conflict (409, SELF_DEMOTION),
\* whether or not the identity holds a permission for the request.
C12_SelfRolePatchConflict ==
    (OnOwnRecord("PATCH") /\ last.bodyRoles) =>
        /\ last.status = 409
        /\ last.err.class = "ConflictError"
        /\ last.err.errorCode = SELF_DEMOTION

----------------------------------------------------------------------------
(* Properties of the error paths of verifyToken (Spec)                      *)

\* C14: when a data-store access inside verifyToken throws, the request
\* ends with an internal error whose status and error code differ from
\* those of every not-authenticated outcome (missing, malformed, expired,
\* revoked or never-issued token).
C14_StoreFailureDistinct ==
    (last.op = "request" /\ last.fault # "none") =>
        /\ last.err.class = "InternalError"
        /\ \A c \in Cookies :
              \E v \in {verifyToken(c, sessions, users, now)} :
                  v.err # NoError =>
                      <<v.err.statusCode, v.err.errorCode>>
                          # <<last.err.statusCode, last.err.errorCode>>

\* C18: every failure leaves with the status of its kind: authentication
\* failures (missing, invalid, expired or revoked token) 401, authorization
\* failures 403, not-found lookups 404, self-demotion and self-deletion 409.
C18_StatusOfKind ==
    Verified =>
        /\ ~last.attached => last.status = 401
        /\ last.decided = "DENY" => last.status = 403
        /\ last.err.class = "NotFoundError" => last.status = 404
        /\ last.err.class = "ConflictError" => last.status = 409

----------------------------------------------------------------------------
(* Properties of the error responses (ErrSpec)                              *)

\* C16: every error response has a body with a message, a numeric errorCode
\* and, only when details exist, an errors payload, whether the error went
\* through next or was thrown inside a handler.
C16_ErrorBodyShape ==
    pres # Pending =>
        /\ {"message", "errorCode"} \subseteq DOMAIN pres.body
        /\ DOMAIN pres.body \subseteq {"message", "errorCode", "errors"}
        /\ pres.body.errorCode \in Nat
        /\ "errors" \in DOMAIN pres.body => ~Falsy(pres.body.errors)

\* C17: for a failure that is no HttpError and no validation error the
\* response is the same whatever the internal error was: status 500, a
\* fixed message and code, and no field carrying the original error.
C17_UnknownFailureFlattened ==
    (pres # Pending /\ preq.error \in OtherErrors) =>
        /\ pres.status = 500
        /\ DOMAIN pres.body \cap {"errors", "details"} = {}
        /\ \A e \in OtherErrors :
              pres = IF preq.how = "next" THEN errorMiddleware(e) ELSE errorHandler(e)

============================================================================
